---- MODULE Spec2Model ----
(***************************************************************************)
(* Promise / Future continuation library (namespace TaskStuff,            *)
(* src/task_stuff.h).  The shared states live in the sequence st; the      *)
(* handles owned by user code live in proms and futs.  Every library      *)
(* function is an operator over a "world" W = [st, gh, bad, blocked] that  *)
(* returns the world after the call together with what the call returned   *)
(* or threw, so that nested calls (a fulfilment running a continuation     *)
(* that fulfils the next promise ...) compose exactly as in the source.    *)
(***************************************************************************)
EXTENDS Integers, Sequences, FiniteSets, TLC

\* ---------------------------------------------------------------- bounds
MaxStates == 3      \* shared states ever allocated in one behaviour
MaxVal == 1         \* user values are 0 .. MaxVal
MaxMoves == 1       \* move constructions of user handles in one behaviour
MaxInputs == 2      \* Futures handed to one call of WhenAll

Vals == 0 .. MaxVal

VARIABLES
    st,      \* Seq of PromiseFutureState: st[s] is the heap object with id s
    gh,      \* Seq of history records, one per state (never read by the code)
    proms,   \* Seq of user-owned Promise handles
    futs,    \* Seq of user-owned Future handles, each with its Get thread
    bad,     \* set of anomalies seen so far (use after delete, relock, ...)
    last,    \* the call that threw to user code in the last step, if any
    moves,   \* number of move constructions done
    dtor,    \* whether deleting a continuation holder runs its destructor
    wa       \* the call of WhenAll: its context, its threads, its history

vars == <<st, gh, proms, futs, bad, last, moves, dtor, wa>>

\* ------------------------------------------------------------ data model
\* std::exception_ptr: "none" is the null pointer.
NoExc == "none"

\* Faulty variant of NullPromise: a move that takes the state out of the
\* source but leaves its two flags as they were when set.
StalePromise(isVoid) ==
    [_state_ |-> 0, _future_retrieved_ |-> TRUE, _value_set_ |-> TRUE,
     void |-> isVoid]

\* A Promise<T> object: its three fields, plus its static type (void or not).
NullPromise(isVoid) ==
    [_state_ |-> 0, _future_retrieved_ |-> FALSE, _value_set_ |-> FALSE,
     void |-> isVoid]

\* A user continuation function: its name, and the state of the Future it
\* captured by move (0: none, or moved out), for future-returning functions.
NoFn == [name |-> "none", fut |-> 0, rvoid |-> FALSE]

\* Names of the user functions: f, g : int -> int; n : void -> void;
\* u : T -> Future<R>, returning the Future it captured.
PlainFnsOf(isVoid) == IF isVoid THEN {"n"} ELSE {"f", "g"}

\* What the user function does with its argument: f(x) = x + 1 and throws
\* "Ef" on 0; g(x) = 10 * x; n() and u(x) do nothing but return.
FnThrows(name, x) == name = "f" /\ x = 0
FnValue(name, x) == IF name = "f" THEN x + 1 ELSE IF name = "g" THEN 10 * x ELSE 0

\* A freshly constructed PromiseFutureState<T>.
NewStateRec(isVoid) ==
    [_ref_count_ |-> 1,
     _mtx_value_ |-> "free",       \* "free", "caller" (a running call), "getter"
     _cv_value_ |-> {},            \* Future handles blocked in wait()
     _value_ |-> [has |-> FALSE, v |-> 0],
     _done_ |-> FALSE,
     _exception_ |-> NoExc,
     _continuation_ |-> [set |-> FALSE, chained |-> FALSE, fn |-> NoFn,
                         _result_promise_ |-> NullPromise(FALSE)],
     _chained_promise_ |-> [has |-> FALSE, p |-> NullPromise(isVoid)],
     _on_exception_ |-> [has |-> FALSE, fn |-> NoFn],
     void |-> isVoid,
     deleted |-> FALSE]

\* History of a state: how often the continuation function attached to it was
\* invoked, with what, whether a state mutex was held by the invoking thread,
\* how often its waiters were notified, what it was derived from (the state
\* Then was called on, the function, the state of the Future the function
\* captured), and how its promise was fulfilled ("value", "done", "exception", or "broken" when
\* the promise was destroyed unfulfilled).
NewGhost(upState, fn) ==
    [n |-> 0, arg |-> 0, locked |-> FALSE, notified |-> 0,
     obs |-> 0, obsarg |-> NoExc, up |-> upState, fn |-> fn.name,
     inner |-> fn.fut, ful |-> "none", fulv |-> 0, fule |-> NoExc]

\* Outcome of a state as the consumer observes it.
HasOutcome(S) == S._exception_ # NoExc \/ S._value_.has \/ S._done_

World == [st |-> st, gh |-> gh, bad |-> bad, blocked |-> FALSE, dtor |-> dtor]

Ret(W, p, err) == [W |-> W, p |-> p, err |-> err]

\* ------------------------------------------------------- mutex, refcount
Flag(W, what) == [W EXCEPT !.bad = @ \cup {what}]

\* std::unique_lock lck(_state_->_mtx_value_)
Lock(W, s) ==
    IF W.st[s].deleted THEN Flag(W, "use_after_delete")
    ELSE IF W.st[s]._mtx_value_ = "caller" THEN Flag(W, "relock")
    ELSE IF W.st[s]._mtx_value_ \in {"getter", "thread"}
    THEN [W EXCEPT !.blocked = TRUE]
    ELSE [W EXCEPT !.st[s]._mtx_value_ = "caller"]

\* Faulty variant of Unlock: the mutex stays locked.
UnlockNever(W, s) == W

\* ~unique_lock
Unlock(W, s) == [W EXCEPT !.st[s]._mtx_value_ = "free"]

HeldByCaller(W) == {s \in 1 .. Len(W.st) : W.st[s]._mtx_value_ = "caller"}

\* Faulty variant of NotifyAll: the outcome is stored but nobody is woken.
NotifyNone(W, s) == [W EXCEPT !.gh[s].notified = @ + 1]

\* _cv_value_.notify_all()
NotifyAll(W, s) ==
    [W EXCEPT !.st[s]._cv_value_ = {}, !.gh[s].notified = @ + 1]

\* Every nested library call goes through Invoke, which dispatches on the
\* name of the function called; c holds the call's arguments.
RECURSIVE Invoke(_, _)

\* A nested call: c is made in world W.
Nested(W, c) == Invoke(W, c)

\* PromiseFutureState::_addRef
_addRef(W, s) ==
    IF W.st[s].deleted THEN Flag(W, "use_after_delete")
    ELSE [W EXCEPT !.st[s]._ref_count_ = @ + 1]

\* ~Future on a handle bound to state s (0: no state).
DropFuture(W, s) ==
    IF s = 0 THEN W ELSE Nested(W, [op |-> "_release", s |-> s]).W

\* ~Promise
DropPromise(W, p) == Nested(W, [op |-> "_clear", p |-> p]).W

\* ~unique_ptr<InternalContinuationHolderIfc>: the holder is deleted through
\* a pointer to its base, which has no virtual destructor.  That is undefined
\* behaviour; W.dtor says whether the build runs the holder's destructor
\* (~Promise of _result_promise_, then the function object and the Future it
\* captured) or leaves the members as they are.
DeleteHolder(W, c) ==
    IF ~c.set THEN W
    ELSE IF ~W.dtor THEN Flag(W, "delete_holder")
    ELSE DropFuture(DropPromise(Flag(W, "delete_holder"), c._result_promise_),
                    c.fn.fut)

\* delete this: the members are destroyed in reverse order of declaration:
\* _on_exception_, _chained_promise_ (~Promise), _continuation_.
DestroyState(W, s) ==
    LET S == W.st[s]
        dead == [(IF S._mtx_value_ # "free" THEN Flag(W, "delete_locked") ELSE W)
                    EXCEPT !.st[s].deleted = TRUE]
    IN DeleteHolder(DropPromise(dead, S._chained_promise_.p), S._continuation_)

\* PromiseFutureState::_release: the last reference deletes the state.
_release(W, s) ==
    IF W.st[s].deleted THEN Flag(W, "use_after_delete")
    ELSE IF W.st[s]._ref_count_ = 1
    THEN DestroyState([W EXCEPT !.st[s]._ref_count_ = 0], s)
    ELSE [W EXCEPT !.st[s]._ref_count_ = @ - 1]

\* ------------------------------------------------------ user functions
\* History: the continuation function attached to state s is invoked with x;
\* locked records that the mutex of s was held by the invoking thread.
NoteCall(W, s, x) ==
    [W EXCEPT !.gh[s].n = @ + 1, !.gh[s].arg = x,
              !.gh[s].locked = @ \/ s \in HeldByCaller(W)]

\* History: the exception observer attached to state s is invoked with e.
NoteObserver(W, s, e) ==
    [W EXCEPT !.gh[s].obs = @ + 1, !.gh[s].obsarg = e,
              !.gh[s].locked = @ \/ s \in HeldByCaller(W)]

\* History: the promise of state s was fulfilled (kind, value, failure).
NoteFulfil(W, s, kind, v, e) ==
    [W EXCEPT !.gh[s].ful = kind, !.gh[s].fulv = v, !.gh[s].fule = e]

\* ----------------------------------------------------- Promise: fulfil
\* Faulty variant of StoreValue: a value-initialised ValueT is stored.
StoreStale(W, s, v) ==
    NotifyAll([W EXCEPT !.st[s]._value_ = [has |-> TRUE, v |-> 0]], s)

\* The last branch of SetValue: store the value and wake the waiters.
StoreValue(W, s, v) ==
    NotifyAll([W EXCEPT !.st[s]._value_ = [has |-> TRUE, v |-> v]], s)

\* The last branch of Promise<void>::SetDone.
StoreDone(W, s) == NotifyAll([W EXCEPT !.st[s]._done_ = TRUE], s)

\* The last branch of SetException: store the failure and wake the waiters.
StoreException(W, s, e) == NotifyAll([W EXCEPT !.st[s]._exception_ = e], s)

\* Faulty variant of FulfilGuard: without the test of _value_set_.
GuardStateOnly(p) == IF p._state_ = 0 THEN "NoState" ELSE NoExc

\* The guards every fulfilment starts with: what it throws, if anything.
FulfilGuard(p) ==
    IF p._value_set_ THEN "PromiseAlreadySatisfied"
    ELSE IF p._state_ = 0 THEN "NoState"
    ELSE NoExc

\* Faulty variant of Fulfilled: the promise is not marked as fulfilled.
FulfilledUnmarked(r, p) == Ret(Unlock(r.W, p._state_), p, r.err)

\* The end of a fulfilment of promise p whose dispatch (a continuation, or
\* the store) returned r: the lock on p's state is released, the promise is
\* marked fulfilled, and what the dispatch threw goes on to the caller.
Fulfilled(r, p) ==
    Ret(Unlock(r.W, p._state_), [p EXCEPT !._value_set_ = TRUE], r.err)

\* The same after forwarding to the chained promise, which lives in the
\* state and is now marked fulfilled itself.
Forwarded(r, p) ==
    Fulfilled(Ret([r.W EXCEPT !.st[p._state_]._chained_promise_.p = r.p],
                  r.p, r.err), p)

\* Faulty variant of SetValueLocked: the value is stored whatever is
\* installed in the state.
SetValueLockedStore(W1, p, v) ==
    Fulfilled(Ret(StoreValue(W1, p._state_, v), p, NoExc), p)

\* Promise<T>::SetValue(value), from the lock on.
SetValueLocked(W1, p, v) ==
    LET s == p._state_
        S == W1.st[s]
    IN IF S._continuation_.set
       THEN Fulfilled(Nested(W1, [op |-> "Call", s |-> s, x |-> v]), p)
       ELSE IF S._chained_promise_.has
       THEN Forwarded(Nested(W1, [op |-> "SetValue",
                                  p |-> S._chained_promise_.p, v |-> v]), p)
       ELSE Fulfilled(Ret(StoreValue(W1, s, v), p, NoExc), p)

\* Promise<T>::SetValue(value)
SetValue(W, p, v) ==
    IF FulfilGuard(p) # NoExc THEN Ret(W, p, FulfilGuard(p))
    ELSE SetValueLocked(
             NoteFulfil(Lock(W, p._state_), p._state_, "value", v, NoExc), p, v)

\* Faulty variant of SetDoneLocked: the completion is stored and the waiters
\* are notified even when it went to a continuation or a chained promise.
SetDoneLockedAlso(W1, p) ==
    LET s == p._state_
        S == W1.st[s]
    IN IF S._continuation_.set
       THEN Fulfilled(Nested(StoreDone(W1, s), [op |-> "Call", s |-> s, x |-> 0]), p)
       ELSE IF S._chained_promise_.has
       THEN Forwarded(Nested(StoreDone(W1, s),
                             [op |-> "SetDone", p |-> S._chained_promise_.p]), p)
       ELSE Fulfilled(Ret(StoreDone(W1, s), p, NoExc), p)

\* Promise<void>::SetDone(), from the lock on.
SetDoneLocked(W1, p) ==
    LET s == p._state_
        S == W1.st[s]
    IN IF S._continuation_.set
       THEN Fulfilled(Nested(W1, [op |-> "Call", s |-> s, x |-> 0]), p)
       ELSE IF S._chained_promise_.has
       THEN Forwarded(Nested(W1, [op |-> "SetDone",
                                  p |-> S._chained_promise_.p]), p)
       ELSE Fulfilled(Ret(StoreDone(W1, s), p, NoExc), p)

\* Promise<void>::SetDone()
SetDone(W, p) ==
    IF FulfilGuard(p) # NoExc THEN Ret(W, p, FulfilGuard(p))
    ELSE SetDoneLocked(
             NoteFulfil(Lock(W, p._state_), p._state_, "done", 0, NoExc), p)

\* Faulty variant of SetExceptionLocked: a failure handed to the observer is
\* stored as well.
SetExceptionLockedKeep(W1, p, e) ==
    LET s == p._state_
        S == W1.st[s]
    IN IF S._continuation_.set
       THEN Fulfilled(Nested(W1, [op |-> "HolderSetException",
                                  s |-> s, e |-> e]), p)
       ELSE IF S._chained_promise_.has
       THEN Forwarded(Nested(W1, [op |-> "SetException",
                                  p |-> S._chained_promise_.p, e |-> e]), p)
       ELSE IF S._on_exception_.has
       THEN Fulfilled(Ret(StoreException(NoteObserver(W1, s, e), s, e), p, NoExc), p)
       ELSE Fulfilled(Ret(StoreException(W1, s, e), p, NoExc), p)

\* SetException, from the lock on.
SetExceptionLocked(W1, p, e) ==
    LET s == p._state_
        S == W1.st[s]
    IN IF S._continuation_.set
       THEN Fulfilled(Nested(W1, [op |-> "HolderSetException",
                                  s |-> s, e |-> e]), p)
       ELSE IF S._chained_promise_.has
       THEN Forwarded(Nested(W1, [op |-> "SetException",
                                  p |-> S._chained_promise_.p, e |-> e]), p)
       ELSE IF S._on_exception_.has
       THEN Fulfilled(Ret(NoteObserver(W1, s, e), p, NoExc), p)
       ELSE Fulfilled(Ret(StoreException(W1, s, e), p, NoExc), p)

\* Promise<T>::SetException(exception_ptr), the same text in Promise<void>.
SetException(W, p, e) ==
    IF FulfilGuard(p) # NoExc THEN Ret(W, p, FulfilGuard(p))
    ELSE SetExceptionLocked(
             NoteFulfil(Lock(W, p._state_), p._state_, "exception", 0, e), p, e)

\* The end of _clear: b is what the BrokenPromise injection returned (a
\* throw ends the program: _clear runs in ~Promise and in the noexcept move
\* assignment); the promise gives up its reference.
Cleared(b, p) ==
    Ret(Nested(IF b.err # NoExc THEN Flag(b.W, "terminate") ELSE b.W,
               [op |-> "_release", s |-> p._state_]).W,
        [b.p EXCEPT !._state_ = 0], NoExc)

\* The BrokenPromise injection of _clear.
Broken(b, p) ==
    Ret(NoteFulfil(b.W, p._state_, "broken", 0, "BrokenPromise"), b.p, b.err)

\* Faulty variant of _clear: the reference is given up, nothing is injected.
ClearNoInject(W, p) ==
    IF p._state_ = 0 THEN Ret(W, p, NoExc) ELSE Cleared(Ret(W, p, NoExc), p)

\* Promise::_clear: a Promise that still has its state and was never
\* fulfilled injects BrokenPromise, then gives up its reference.
_clear(W, p) ==
    IF p._state_ = 0 THEN Ret(W, p, NoExc)
    ELSE IF ~p._value_set_
    THEN Cleared(Broken(Nested(W, [op |-> "SetException", p |-> p,
                                   e |-> "BrokenPromise"]), p), p)
    ELSE Cleared(Ret(W, p, NoExc), p)

\* ------------------------------------------------ continuation holders
\* catch (...) { promise.SetException(std::current_exception()); } after a
\* try block that returned r.
Catch(r) ==
    IF r.err = NoExc THEN r
    ELSE Nested(r.W, [op |-> "SetException", p |-> r.p, e |-> r.err])

\* Faulty variant of RunInto: the argument is passed on as the result, the
\* function is not applied.
RunRaw(W, fn, x, rp) ==
    IF fn.rvoid THEN Catch(Nested(W, [op |-> "SetDone", p |-> rp]))
    ELSE Catch(Nested(W, [op |-> "SetValue", p |-> rp, v |-> x]))

\* The try block after fn has returned y: promise.SetValue(y), or SetDone
\* for a function returning void, and the catch clause around it.
StoreResult(W, fn, y, rp) ==
    IF fn.rvoid THEN Catch(Nested(W, [op |-> "SetDone", p |-> rp]))
    ELSE Catch(Nested(W, [op |-> "SetValue", p |-> rp, v |-> y]))

\* try { auto result = fn(x); promise.SetValue(result); } catch (...) {...}
\* (SetDone for a function returning void), with promise rp in world W.
RunInto(W, fn, x, rp) ==
    IF FnThrows(fn.name, x)
    THEN Nested(W, [op |-> "SetException", p |-> rp, e |-> "Ef"])
    ELSE StoreResult(W, fn, FnValue(fn.name, x), rp)

\* The holder's _result_promise_ member after a call on it returned r.
ResultPromiseIs(r, s) ==
    Ret([r.W EXCEPT !.st[s]._continuation_._result_promise_ = r.p], r.p, r.err)

\* Faulty variant of HolderCall: the call is left for later, the function
\* is not run and the result promise is not fulfilled.
HolderCallLater(W, s, x) ==
    Ret(W, W.st[s]._continuation_._result_promise_, NoExc)

\* InternalContinuationHolder::Call: run the function, fulfil the result
\* promise with what it returned; whatever the try block throws goes to the
\* result promise as its failure.
HolderCall(W, s, x) ==
    ResultPromiseIs(RunInto(NoteCall(W, s, x), W.st[s]._continuation_.fn, x,
                            W.st[s]._continuation_._result_promise_), s)

\* InternalChainedContinuationHolder::Call: the function returns a Future
\* (the one it captured, moved out); the result promise is moved into that
\* Future's state as its chained promise.
ChainedHolderCall(W, s, x) ==
    LET c == W.st[s]._continuation_
    IN IF FnThrows(c.fn.name, x)
       THEN ResultPromiseIs(
                Nested(NoteCall(W, s, x),
                       [op |-> "SetException", p |-> c._result_promise_,
                        e |-> "Ef"]), s)
       ELSE Nested([NoteCall(W, s, x) EXCEPT
                       !.st[s]._continuation_.fn.fut = 0,
                       !.st[s]._continuation_._result_promise_ =
                           NullPromise(c._result_promise_.void)],
                   [op |-> "_setChainedPromise", s |-> c.fn.fut,
                    p |-> c._result_promise_])

\* InternalContinuationHolderIfc::Call, dispatched on the holder's class.
Call(W, s, x) ==
    IF W.st[s]._continuation_.chained
    THEN ChainedHolderCall(W, s, x) ELSE HolderCall(W, s, x)

\* Faulty variant of HolderSetException: the failure stops at the holder.
HolderDropException(W, s, e) ==
    Ret(W, W.st[s]._continuation_._result_promise_, NoExc)

\* Internal(Chained)ContinuationHolder::SetException
HolderSetException(W, s, e) ==
    ResultPromiseIs(
        Nested(W, [op |-> "SetException",
                   p |-> W.st[s]._continuation_._result_promise_, e |-> e]), s)

\* Whether the state holds a success outcome (a value, or done when void).
HasSuccess(S) == IF S.void THEN S._done_ ELSE S._value_.has

\* The end of _setChainedPromise after the forward or the parking returned
\* r: unlock, the Future gives up its reference, the parameter is destroyed.
ChainedEnd(r, fs) ==
    Ret(DropPromise(DropFuture(IF fs = 0 THEN r.W ELSE Unlock(r.W, fs), fs), r.p),
        NullPromise(r.p.void), r.err)

\* Faulty variant of SetChainedLocked: the promise is parked even when the
\* outcome is already there.
SetChainedParkOnly(W1, fs, cp) ==
    Ret([W1 EXCEPT !.st[fs]._chained_promise_ = [has |-> TRUE, p |-> cp]],
        NullPromise(cp.void), NoExc)

\* _setChainedPromise, from the lock on.
SetChainedLocked(W1, fs, cp) ==
    LET S == W1.st[fs]
    IN IF S._exception_ # NoExc
       THEN Nested(W1, [op |-> "SetException", p |-> cp, e |-> S._exception_])
       ELSE IF HasSuccess(S)
       THEN IF S.void THEN Nested(W1, [op |-> "SetDone", p |-> cp])
            ELSE Nested(W1, [op |-> "SetValue", p |-> cp, v |-> S._value_.v])
       ELSE Ret([W1 EXCEPT !.st[fs]._chained_promise_ = [has |-> TRUE, p |-> cp]],
                NullPromise(cp.void), NoExc)

\* Future::_setChainedPromise on a Future bound to state fs (0: no state):
\* forward the outcome that is already there, or park the promise in the
\* state.
_setChainedPromise(W, fs, cp) ==
    IF fs = 0
    THEN ChainedEnd(Nested(W, [op |-> "SetException", p |-> cp,
                               e |-> "NoState"]), fs)
    ELSE ChainedEnd(SetChainedLocked(Lock(W, fs), fs, cp), fs)

\* The call c made in world W.
Invoke(W, c) ==
    CASE c.op = "SetValue" -> SetValue(W, c.p, c.v)
      [] c.op = "SetDone" -> SetDone(W, c.p)
      [] c.op = "SetException" -> SetException(W, c.p, c.e)
      [] c.op = "_clear" -> _clear(W, c.p)
      [] c.op = "_release" -> Ret(_release(W, c.s), NullPromise(FALSE), NoExc)
      [] c.op = "Call" -> Call(W, c.s, c.x)
      [] c.op = "HolderSetException" -> HolderSetException(W, c.s, c.e)
      [] c.op = "_setChainedPromise" -> _setChainedPromise(W, c.s, c.p)

\* ------------------------------------------- Promise: construct, GetFuture
\* Promise<T>::Promise(): a new state with one reference.  (up, fn) is
\* history: the state and function the promise is the continuation of.
PromiseCtor(W, isVoid, up, fn) ==
    Ret([W EXCEPT !.st = Append(@, NewStateRec(isVoid)),
                  !.gh = Append(@, NewGhost(up, fn))],
        [_state_ |-> Len(W.st) + 1, _future_retrieved_ |-> FALSE,
         _value_set_ |-> FALSE, void |-> isVoid],
        NoExc)

\* Faulty variant of GetFuture: without the test of _future_retrieved_.
GetFutureAgain(W, p) ==
    IF p._state_ = 0
    THEN [W |-> W, p |-> p, f |-> 0, err |-> "NoState"]
    ELSE [W |-> _addRef(W, p._state_),
          p |-> [p EXCEPT !._future_retrieved_ = TRUE],
          f |-> p._state_, err |-> NoExc]

\* Promise<T>::GetFuture(); f is the state of the Future handed out.
GetFuture(W, p) ==
    IF p._future_retrieved_
    THEN [W |-> W, p |-> p, f |-> 0, err |-> "FutureAlreadyRetrieved"]
    ELSE IF p._state_ = 0
    THEN [W |-> W, p |-> p, f |-> 0, err |-> "NoState"]
    ELSE [W |-> _addRef(W, p._state_),
          p |-> [p EXCEPT !._future_retrieved_ = TRUE],
          f |-> p._state_, err |-> NoExc]

\* --------------------------------------------------------- Future: Then
ThenRet(W, h, f, err) == [W |-> W, h |-> h, f |-> f, err |-> err]

\* Faulty variant of SetContinuation: the function is run at once, on a
\* value-initialised argument, before the value of the state exists.
SetContinuationEager(W, s, isChained, fn, prom) ==
    NoteCall([W EXCEPT !.st[s]._continuation_ =
                 [set |-> TRUE, chained |-> isChained, fn |-> fn,
                  _result_promise_ |-> prom]], s, 0)

\* _setContinuation / _setChainedContinuation
SetContinuation(W, s, isChained, fn, prom) ==
    [W EXCEPT !.st[s]._continuation_ =
        [set |-> TRUE, chained |-> isChained, fn |-> fn,
         _result_promise_ |-> prom]]

\* Promise<R> continuationPromise; continuationPromise.GetFuture()
FreshPromise(W, fs, fn) ==
    GetFuture(PromiseCtor(W, fn.rvoid, fs, fn).W,
              PromiseCtor(W, fn.rvoid, fs, fn).p)

\* The argument the continuation of state S is called with.
ArgOf(S) == IF S.void THEN 0 ELSE S._value_.v

\* Faulty variant of ThenLocked: a failure that is already there is thrown to
\* the caller of Then.
ThenLockedRaise(W1, fs, fn, cp) ==
    IF W1.st[fs]._exception_ # NoExc THEN Ret(W1, cp, W1.st[fs]._exception_)
    ELSE IF HasSuccess(W1.st[fs])
    THEN RunInto(NoteCall(W1, fs, ArgOf(W1.st[fs])), fn, ArgOf(W1.st[fs]), cp)
    ELSE Ret(SetContinuation(W1, fs, FALSE, fn, cp), NullPromise(fn.rvoid), NoExc)

\* Faulty variant of ThenLocked: the continuation is installed even when the
\* value is already there.
ThenLockedInstall(W1, fs, fn, cp) ==
    IF W1.st[fs]._exception_ # NoExc
    THEN Nested(W1, [op |-> "SetException", p |-> cp, e |-> W1.st[fs]._exception_])
    ELSE Ret(SetContinuation(W1, fs, FALSE, fn, cp), NullPromise(fn.rvoid), NoExc)

\* Then for a plain function, inside the lock scope: forward the failure,
\* or run the function now, or install the continuation.
ThenLocked(W1, fs, fn, cp) ==
    LET S == W1.st[fs]
    IN IF S._exception_ # NoExc
       THEN Nested(W1, [op |-> "SetException", p |-> cp, e |-> S._exception_])
       ELSE IF HasSuccess(S)
       THEN RunInto(NoteCall(W1, fs, ArgOf(S)), fn, ArgOf(S), cp)
       ELSE Ret(SetContinuation(W1, fs, FALSE, fn, cp),
                NullPromise(fn.rvoid), NoExc)

\* Faulty variant of ThenEnd: Then returns the new Future but the handle stays
\* bound and keeps its reference.
ThenEndKeep(r, fs, f) ==
    ThenRet(DropPromise(Unlock(r.W, fs), r.p), fs, f, r.err)

\* Then after the lock scope returned r: the handle gives up its state and
\* the new Future (state f) is returned; a throw leaves the handle as it was.
\* The locals (continuationPromise, and the Future on a throw) are destroyed.
ThenEnd(r, fs, f) ==
    IF r.err # NoExc
    THEN ThenRet(DropPromise(DropFuture(Unlock(r.W, fs), f), r.p), fs, 0, r.err)
    ELSE ThenRet(DropPromise(DropFuture(Unlock(r.W, fs), fs), r.p), 0, f, NoExc)

ThenFrom(g, fs, fn) ==
    ThenEnd(ThenLocked(Lock(g.W, fs), fs, fn, g.p), fs, g.f)

\* Future<T>::Then(fn) for fn returning no Future, on a handle bound to state
\* fs.  Returns the world, the handle's state afterwards (h), the state of the
\* returned Future (f) and what was thrown.
Then(W, fs, fn) ==
    IF fs = 0 THEN ThenRet(W, fs, 0, "NoState")
    ELSE ThenFrom(FreshPromise(W, fs, fn), fs, fn)

\* The places of the future-returning Then that fail a fresh promise g at
\* once with e; the promise then leaves its scope.  left is the Future still
\* inside the function object.
FailedFrom(r, f, left) == [W |-> DropPromise(r.W, r.p), f |-> f, left |-> left]

FreshFailed(g, e, left) ==
    FailedFrom(Nested(g.W, [op |-> "SetException", p |-> g.p, e |-> e]),
               g.f, left)

\* _setChainedContinuation(fn, continuationPromise) with the fresh promise g
Installed(g, fs, fn) ==
    [W |-> SetContinuation(g.W, fs, TRUE, fn, g.p), f |-> g.f, left |-> 0]

\* The future-returning Then inside the lock scope.
ThenChainedLocked(W1, fs, fn) ==
    LET S == W1.st[fs]
    IN IF S._exception_ # NoExc
       THEN FreshFailed(FreshPromise(W1, fs, fn), S._exception_, fn.fut)
       ELSE IF HasSuccess(S)
       THEN IF FnThrows(fn.name, ArgOf(S))
            THEN FreshFailed(FreshPromise(NoteCall(W1, fs, ArgOf(S)), fs, fn),
                             "Ef", fn.fut)
            ELSE [W |-> NoteCall(W1, fs, ArgOf(S)), f |-> fn.fut, left |-> 0]
       ELSE Installed(FreshPromise(W1, fs, fn), fs, fn)

ThenChainedEnd(rr, fs) ==
    ThenRet(DropFuture(DropFuture(Unlock(rr.W, fs), fs), rr.left), 0, rr.f, NoExc)

\* Future<T>::Then(fn) for fn returning a Future (the unwrapping overload).
\* fn.fut is the state of the Future that fn captured and returns.
ThenChained(W, fs, fn) ==
    IF fs = 0 THEN ThenRet(DropFuture(W, fn.fut), fs, 0, "NoState")
    ELSE ThenChainedEnd(ThenChainedLocked(Lock(W, fs), fs, fn), fs)

\* ---------------------------------------------------- Future: OnException
\* The exception observer of user code: takes the failure, returns nothing.
Observer == [name |-> "o", fut |-> 0, rvoid |-> TRUE]

\* What OnException leaves: the world, the handle's state afterwards (h) and
\* the failure the observer was called with inside the call (obs).
ObsRet(W, h, obs) == [W |-> W, h |-> h, obs |-> obs, err |-> NoExc]

\* Faulty variant of OnExceptionLocked: the observer is stored whatever the
\* outcome is.
OnExceptionLockedStore(W1, fs, fn) ==
    ObsRet([W1 EXCEPT !.st[fs]._on_exception_ = [has |-> TRUE, fn |-> fn]],
           fs, NoExc)

\* OnException inside the lock scope: call the observer now with a failure
\* that is already there, do nothing when done, else store the observer.
OnExceptionLocked(W1, fs, fn) ==
    IF W1.st[fs]._exception_ # NoExc
    THEN ObsRet(NoteObserver(W1, fs, W1.st[fs]._exception_), fs,
                W1.st[fs]._exception_)
    ELSE IF HasSuccess(W1.st[fs]) THEN ObsRet(W1, fs, NoExc)
    ELSE ObsRet([W1 EXCEPT !.st[fs]._on_exception_ = [has |-> TRUE, fn |-> fn]],
                fs, NoExc)

\* OnException after the lock scope: the handle gives up its state.
\* Faulty variant of OnExceptionEnd: the handle stays bound to its state.
OnExceptionEndKeep(r, fs) == ObsRet(Unlock(r.W, fs), fs, r.obs)

OnExceptionEnd(r, fs) == ObsRet(DropFuture(Unlock(r.W, fs), fs), 0, r.obs)

\* Future<void>::OnException(fn).  Without a state the observer is called
\* with NoState and nothing is thrown.
OnException(W, fs, fn) ==
    IF fs = 0 THEN ObsRet(W, 0, "NoState")
    ELSE OnExceptionEnd(OnExceptionLocked(Lock(W, fs), fs, fn), fs)

\* ------------------------------------------------------------ user code
NoLast == [op |-> "none", h |-> 0, err |-> NoExc]
NoRes == [kind |-> "none", v |-> 0, e |-> NoExc, from |-> 0, waited |-> FALSE]

NewFut(s, isVoid) ==
    [_state_ |-> s, void |-> isVoid, live |-> TRUE, pc |-> "idle",
     waited |-> FALSE, res |-> NoRes]

\* Before WhenAll is called there is no context.
NoWhenAll == [phase |-> "none"]

EmptyWorld ==
    [st |-> <<>>, gh |-> <<>>, bad |-> {}, blocked |-> FALSE, dtor |-> FALSE]

\* The state after user code has constructed its promises: one Promise per
\* element of types (TRUE: Promise<void>, FALSE: Promise<int>).
RECURSIVE Construct(_)
Construct(types) ==
    IF types = <<>> THEN [W |-> EmptyWorld, ps |-> <<>>]
    ELSE LET c == Construct(SubSeq(types, 1, Len(types) - 1))
             r == PromiseCtor(c.W, types[Len(types)], 0, NoFn)
         IN [W |-> r.W, ps |-> Append(c.ps, [rec |-> r.p, live |-> TRUE])]

InitWith(types) ==
    /\ st = Construct(types).W.st /\ gh = Construct(types).W.gh
    /\ proms = Construct(types).ps /\ futs = <<>>
    /\ bad = {} /\ last = NoLast /\ moves = 0
    /\ dtor \in BOOLEAN
    /\ wa = NoWhenAll

\* One promise, Promise<int> or Promise<void>.
Init == \E isVoid \in BOOLEAN : InitWith(<<isVoid>>)

\* The step's call ran to its end in world W (it was never blocked on a
\* mutex held by a thread inside Get) within the bound on allocations.
Commit(W) ==
    /\ ~W.blocked
    /\ st' = W.st /\ gh' = W.gh /\ bad' = W.bad

\* The same for a call of user code, which allocates a new state only
\* within the bound.
Apply(W) ==
    /\ Len(W.st) > Len(st) => Len(W.st) <= MaxStates
    /\ Commit(W)

Threw(op, h, err) ==
    last' = IF err = NoExc THEN NoLast ELSE [op |-> op, h |-> h, err |-> err]

\* Every Future handle there can be: one per state, one per move.
FutIds == 1 .. (MaxStates + MaxMoves)

LiveProms == {i \in 1 .. Len(proms) : proms[i].live}
\* Future handles user code may call: alive and not inside Get.
IdleFuts == {h \in 1 .. Len(futs) : futs[h].live /\ futs[h].pc = "idle"}

\* p.GetFuture()
DoGetFuture(i) ==
    LET r == GetFuture(World, proms[i].rec)
    IN /\ Apply(r.W)
       /\ proms' = [proms EXCEPT ![i].rec = r.p]
       /\ futs' = IF r.err = NoExc
                  THEN Append(futs, NewFut(r.f, proms[i].rec.void)) ELSE futs
       /\ Threw("GetFuture", i, r.err)
       /\ UNCHANGED <<moves, dtor, wa>>

\* The common end of the three fulfilling calls of user code.
UserFulfil(i, r, op) ==
    /\ Apply(r.W)
    /\ proms' = [proms EXCEPT ![i].rec = r.p]
    /\ Threw(op, i, r.err)
    /\ UNCHANGED <<futs, moves, dtor, wa>>

\* p.SetValue(v)
DoSetValue(i, v) ==
    /\ ~proms[i].rec.void
    /\ UserFulfil(i, Nested(World, [op |-> "SetValue", p |-> proms[i].rec, v |-> v]),
                  "SetValue")

\* p.SetDone()
DoSetDone(i) ==
    /\ proms[i].rec.void
    /\ UserFulfil(i, Nested(World, [op |-> "SetDone", p |-> proms[i].rec]), "SetDone")

\* p.SetException(e)
DoSetException(i, e) ==
    UserFulfil(i, Nested(World, [op |-> "SetException", p |-> proms[i].rec, e |-> e]),
               "SetException")

\* ~Promise.  The handle's fields are kept as they were when it died.
DestroyPromise(i) ==
    /\ Apply(DropPromise(World, proms[i].rec))
    /\ proms' = [proms EXCEPT ![i].live = FALSE]
    /\ last' = NoLast
    /\ UNCHANGED <<futs, moves, dtor, wa>>

\* Promise q(std::move(p)): the move constructor.
MovePromise(i) ==
    /\ moves < MaxMoves
    /\ proms' = Append([proms EXCEPT ![i].rec = NullPromise(proms[i].rec.void)],
                       [rec |-> proms[i].rec, live |-> TRUE])
    /\ moves' = moves + 1
    /\ UNCHANGED <<dtor, wa>>
    /\ last' = NoLast
    /\ UNCHANGED <<st, gh, futs, bad>>

\* Faulty variant of MoveAssigned: the target takes the state of the source
\* but not its two flags.
MoveAssignedBare(c, q, same) ==
    [W |-> c.W,
     p |-> IF same THEN NullPromise(q.void)
           ELSE [q EXCEPT !._future_retrieved_ = FALSE, !._value_set_ = FALSE],
     q |-> NullPromise(q.void)]

\* Promise::operator=(Promise&&) after _clear() returned c: the target takes
\* the three fields of the source q, the source is reset.  In a self
\* assignment the source is the target that has just been cleared.
MoveAssigned(c, q, same) ==
    [W |-> c.W,
     p |-> IF same THEN NullPromise(q.void) ELSE q,
     q |-> NullPromise(q.void)]

\* Promise::operator=(Promise&& other) on target p with source q.
MoveAssign(W, p, q, same) ==
    MoveAssigned(Nested(W, [op |-> "_clear", p |-> p]), q, same)

\* The end of p = std::move(q) of user code, which returned r.
MoveAssignDone(i, j, r) ==
    /\ Apply(r.W)
    /\ proms' = [proms EXCEPT ![i].rec = r.p, ![j].rec = r.q]
    /\ last' = NoLast
    /\ UNCHANGED <<futs, moves, dtor, wa>>

\* p = std::move(q): the move assignment, between promises of one type.
DoMoveAssign(i, j) ==
    /\ proms[i].rec.void = proms[j].rec.void
    /\ MoveAssignDone(i, j, MoveAssign(World, proms[i].rec, proms[j].rec, i = j))

\* Future g(std::move(f)): the move constructor.
MoveFuture(h) ==
    /\ moves < MaxMoves
    /\ futs' = Append([futs EXCEPT ![h]._state_ = 0],
                      NewFut(futs[h]._state_, futs[h].void))
    /\ moves' = moves + 1
    /\ UNCHANGED <<dtor, wa>>
    /\ last' = NoLast
    /\ UNCHANGED <<st, gh, proms, bad>>

\* ~Future
DestroyFuture(h) ==
    /\ Apply(DropFuture(World, futs[h]._state_))
    /\ futs' = [futs EXCEPT ![h].live = FALSE]
    /\ last' = NoLast
    /\ UNCHANGED <<proms, moves, dtor, wa>>

\* The end of a Then of user code on handle h that returned r; fs1 is futs
\* with what else the call did to the handles.
ThenDone(h, r, fs1, rvoid) ==
    /\ Apply(r.W)
    /\ futs' = IF r.err = NoExc
               THEN Append([fs1 EXCEPT ![h]._state_ = r.h], NewFut(r.f, rvoid))
               ELSE [fs1 EXCEPT ![h]._state_ = r.h]
    /\ Threw("Then", h, r.err)
    /\ UNCHANGED <<proms, moves, dtor, wa>>

PlainFn(name) == [name |-> name, fut |-> 0, rvoid |-> (name = "n")]

\* f.Then(fn) with fn one of the plain functions
DoThen(h, name) ==
    /\ name \in PlainFnsOf(futs[h].void)
    /\ ThenDone(h, Then(World, futs[h]._state_, PlainFn(name)), futs,
                PlainFn(name).rvoid)

\* f.Then([c = std::move(c2)](T) mutable { return std::move(c); })
DoThenChained(h, h2) ==
    /\ h2 # h
    /\ ThenDone(h, ThenChained(World, futs[h]._state_,
                               [name |-> "u", fut |-> futs[h2]._state_,
                                rvoid |-> futs[h2].void]),
                [futs EXCEPT ![h2]._state_ = 0], futs[h2].void)

\* What the handle's last call gave user code when it was OnException.
ObservedRes(r, s) ==
    [kind |-> IF r.obs = NoExc THEN "none" ELSE "observed", v |-> 0,
     e |-> r.obs, from |-> s, waited |-> FALSE]

\* The end of an OnException of user code on handle h that returned r.
OnExceptionDone(h, r) ==
    /\ Apply(r.W)
    /\ futs' = [futs EXCEPT ![h]._state_ = r.h,
                            ![h].res = ObservedRes(r, futs[h]._state_)]
    /\ Threw("OnException", h, r.err)
    /\ UNCHANGED <<proms, moves, dtor, wa>>

\* f.OnException(o) on a Future<void>
DoOnException(h) ==
    /\ futs[h].void
    /\ OnExceptionDone(h, OnException(World, futs[h]._state_, Observer))

\* ------------------------------------------------------ Future::Get
\* Get, up to taking the lock: throws NoState without a state.
GetBegin(W, fs) ==
    IF fs = 0 THEN [W |-> W, err |-> "NoState"]
    ELSE [W |-> [W EXCEPT !.st[fs]._mtx_value_ = "getter"], err |-> NoExc]

\* The thread of handle h enters Get.  Each handle records the outcome of
\* its last Get in res, and whether that Get blocked in wait().
GetEnter(h) ==
    LET s == futs[h]._state_
        r == GetBegin(World, s)
    IN /\ s # 0 => st[s]._mtx_value_ = "free"
       /\ st' = r.W.st
       /\ futs' = IF r.err = NoExc
                  THEN [futs EXCEPT ![h].pc = "locked", ![h].waited = FALSE]
                  ELSE futs
       /\ Threw("Get", h, r.err)
       /\ UNCHANGED <<gh, proms, bad, moves, dtor, wa>>

\* What Get gives its caller from state record S.
GetResult(S, s, w) ==
    IF S._exception_ # NoExc
    THEN [kind |-> "raise", v |-> 0, e |-> S._exception_, from |-> s, waited |-> w]
    ELSE [kind |-> IF S.void THEN "done" ELSE "value", v |-> S._value_.v,
          e |-> NoExc, from |-> s, waited |-> w]

\* Get, holding the lock: the test of the while loop and what follows it.
\* No outcome: wait() releases the mutex and blocks.  A failure: rethrown,
\* the handle keeps its state.  A value: moved out, the handle releases.
GetTest(h) ==
    LET s == futs[h]._state_
        S == st[s]
    IN /\ h <= Len(futs)
       /\ futs[h].pc = "locked"
       /\ last' = NoLast
       /\ UNCHANGED <<proms, moves, dtor, wa>>
       /\ IF ~HasSuccess(S) /\ S._exception_ = NoExc
          THEN /\ st' = [st EXCEPT ![s]._mtx_value_ = "free",
                                   ![s]._cv_value_ = @ \cup {h}]
               /\ futs' = [futs EXCEPT ![h].pc = "waiting", ![h].waited = TRUE]
               /\ UNCHANGED <<gh, bad>>
          ELSE IF S._exception_ # NoExc
          THEN /\ st' = [st EXCEPT ![s]._mtx_value_ = "free"]
               /\ futs' = [futs EXCEPT ![h].pc = "idle", ![h].waited = FALSE,
                              ![h].res = GetResult(S, s, futs[h].waited)]
               /\ UNCHANGED <<gh, bad>>
          ELSE /\ Apply(DropFuture(Unlock(World, s), s))
               /\ futs' = [futs EXCEPT ![h].pc = "idle", ![h]._state_ = 0,
                                 ![h].waited = FALSE,
                                 ![h].res = GetResult(S, s, futs[h].waited)]

\* wait() returns: the thread was notified and has the mutex again.
GetWake(h) ==
    LET s == futs[h]._state_
    IN /\ h <= Len(futs)
       /\ futs[h].pc = "waiting"
       /\ h \notin st[s]._cv_value_
       /\ st[s]._mtx_value_ = "free"
       /\ st' = [st EXCEPT ![s]._mtx_value_ = "getter"]
       /\ futs' = [futs EXCEPT ![h].pc = "locked"]
       /\ last' = NoLast
       /\ UNCHANGED <<gh, proms, bad, moves, dtor, wa>>

\* A spurious wake-up of wait(), which the standard allows.
GetSpurious(h) ==
    LET s == futs[h]._state_
    IN /\ h <= Len(futs)
       /\ futs[h].pc = "waiting"
       /\ h \in st[s]._cv_value_
       /\ st' = [st EXCEPT ![s]._cv_value_ = @ \ {h}]
       /\ last' = NoLast
       /\ UNCHANGED <<gh, proms, futs, bad, moves, dtor, wa>>

\* A step of user code that threw nothing.
NoThrow == last' = NoLast

\* Every operation of one Promise and the Futures derived from it by Then
\* with a plain function, calls that throw to user code left out.
Next ==
    \/ \E i \in LiveProms : DoGetFuture(i) /\ NoThrow
    \/ \E i \in LiveProms, v \in Vals : DoSetValue(i, v) /\ NoThrow
    \/ \E i \in LiveProms : DoSetDone(i) /\ NoThrow
    \/ \E i \in LiveProms : DoSetException(i, "E1") /\ NoThrow
    \/ \E i \in LiveProms : DestroyPromise(i)
    \/ \E i \in LiveProms : MovePromise(i)
    \/ \E h \in IdleFuts : MoveFuture(h)
    \/ \E h \in IdleFuts : DestroyFuture(h)
    \/ \E h \in IdleFuts, name \in {"f", "g", "n"} : DoThen(h, name) /\ NoThrow
    \/ \E h \in IdleFuts : DoOnException(h) /\ NoThrow
    \/ \E h \in IdleFuts : GetEnter(h) /\ NoThrow
    \/ \E h \in FutIds : GetTest(h)
    \/ \E h \in FutIds : GetWake(h)
    \/ \E h \in FutIds : GetSpurious(h)

Spec == Init /\ [][Next]_vars

\* The same with the calls that throw to user code; handles without state
\* are not destroyed (their destructors do nothing).
NextErr ==
    \/ \E i \in LiveProms : DoGetFuture(i)
    \/ \E i \in LiveProms, v \in Vals : DoSetValue(i, v)
    \/ \E i \in LiveProms : DoSetDone(i)
    \/ \E i \in LiveProms : DoSetException(i, "E1")
    \/ \E i \in LiveProms : proms[i].rec._state_ # 0 /\ DestroyPromise(i)
    \/ \E i \in LiveProms : MovePromise(i)
    \/ \E h \in IdleFuts : MoveFuture(h)
    \/ \E h \in IdleFuts : futs[h]._state_ # 0 /\ DestroyFuture(h)
    \/ \E h \in IdleFuts, name \in {"f", "g", "n"} : DoThen(h, name)
    \/ \E h \in IdleFuts : DoOnException(h) /\ NoThrow
    \/ \E h \in IdleFuts : GetEnter(h)
    \/ \E h \in FutIds : GetTest(h)
    \/ \E h \in FutIds : GetWake(h)
    \/ \E h \in FutIds : GetSpurious(h)

SpecErr == Init /\ [][NextErr]_vars

\* Two promises and the future-returning Then (unwrap), without moves.
InitTwo == \E v1 \in BOOLEAN, v2 \in BOOLEAN : InitWith(<<v1, v2>>)

NextTwo ==
    \/ \E i \in LiveProms : DoGetFuture(i) /\ NoThrow
    \/ \E i \in LiveProms, v \in Vals : DoSetValue(i, v) /\ NoThrow
    \/ \E i \in LiveProms : DoSetDone(i) /\ NoThrow
    \/ \E i \in LiveProms : DoSetException(i, "E1") /\ NoThrow
    \/ \E i \in LiveProms : DestroyPromise(i)
    \/ \E h \in IdleFuts, name \in {"f", "g", "n"} : DoThen(h, name) /\ NoThrow
    \/ \E h \in IdleFuts, h2 \in IdleFuts : DoThenChained(h, h2) /\ NoThrow
    \/ \E h \in IdleFuts : GetEnter(h) /\ NoThrow
    \/ \E h \in FutIds : GetTest(h)
    \/ \E h \in FutIds : GetWake(h)

SpecTwo == InitTwo /\ [][NextTwo]_vars

\* Two promises and every operation that writes a slot: both overloads of
\* Then and OnException, with the fulfilments and the Get that leaves a
\* handle bound when it rethrows.
NextSlots ==
    \/ \E i \in LiveProms : DoGetFuture(i) /\ NoThrow
    \/ \E i \in LiveProms, v \in Vals : DoSetValue(i, v) /\ NoThrow
    \/ \E i \in LiveProms : DoSetDone(i) /\ NoThrow
    \/ \E i \in LiveProms : DoSetException(i, "E1") /\ NoThrow
    \/ \E h \in IdleFuts, name \in {"f", "n"} : DoThen(h, name) /\ NoThrow
    \/ \E h \in IdleFuts, h2 \in IdleFuts : DoThenChained(h, h2) /\ NoThrow
    \/ \E h \in IdleFuts : DoOnException(h) /\ NoThrow
    \/ \E h \in IdleFuts : GetEnter(h) /\ NoThrow
    \/ \E h \in FutIds : GetTest(h)
    \/ \E h \in FutIds : GetWake(h)

SpecSlots == InitTwo /\ [][NextSlots]_vars

\* Two promises that fail: by SetException or by being destroyed
\* unfulfilled, with a continuation, an observer or a blocked Get on the
\* other side.
NextFail ==
    \/ \E i \in LiveProms : DoGetFuture(i) /\ NoThrow
    \/ \E i \in LiveProms : DoSetDone(i) /\ NoThrow
    \/ \E i \in LiveProms : DoSetException(i, "E1") /\ NoThrow
    \/ \E i \in LiveProms : DestroyPromise(i)
    \/ \E h \in IdleFuts : DoThen(h, "f") /\ NoThrow
    \/ \E h \in IdleFuts : DoOnException(h) /\ NoThrow
    \/ \E h \in IdleFuts : GetEnter(h) /\ NoThrow
    \/ \E h \in FutIds : GetTest(h)
    \/ \E h \in FutIds : GetWake(h)

SpecFail == InitTwo /\ [][NextFail]_vars

\* Two promises that are moved, move-assigned and destroyed, fulfilled or
\* not, with their Futures handed out or not.
NextMove ==
    \/ \E i \in LiveProms : DoGetFuture(i) /\ NoThrow
    \/ \E i \in LiveProms, v \in Vals : DoSetValue(i, v) /\ NoThrow
    \/ \E i \in LiveProms : DoSetDone(i) /\ NoThrow
    \/ \E i \in LiveProms : DestroyPromise(i)
    \/ \E i \in LiveProms : MovePromise(i)
    \/ \E i \in LiveProms, j \in LiveProms : DoMoveAssign(i, j)
    \/ \E h \in IdleFuts : GetEnter(h) /\ NoThrow
    \/ \E h \in FutIds : GetTest(h)
    \/ \E h \in FutIds : GetWake(h)

SpecMove == InitTwo /\ [][NextMove]_vars

\* One promise and its Future under a fair scheduler: a thread inside Get
\* that can go on does go on.  Spurious wake-ups may or may not happen.
NextLive ==
    \/ \E i \in LiveProms : DoGetFuture(i) /\ NoThrow
    \/ \E i \in LiveProms, v \in Vals : DoSetValue(i, v) /\ NoThrow
    \/ \E i \in LiveProms : DoSetDone(i) /\ NoThrow
    \/ \E i \in LiveProms : DoSetException(i, "E1") /\ NoThrow
    \/ \E i \in LiveProms : DestroyPromise(i)
    \/ \E h \in IdleFuts : GetEnter(h) /\ NoThrow
    \/ \E h \in FutIds : GetTest(h)
    \/ \E h \in FutIds : GetWake(h)
    \/ \E h \in FutIds : GetSpurious(h)

SpecLive ==
    /\ Init /\ [][NextLive]_vars
    /\ \A h \in FutIds : WF_vars(GetTest(h)) /\ WF_vars(GetWake(h))

\* ================================================================ WhenAll
\* WhenAll(std::span<Future<ValueT>>).  Thread 0 is the caller of WhenAll;
\* thread i is the thread of user code that fulfils the promise of input i.
\* The two lambdas run on whatever thread completes an input, so their bodies
\* are taken statement by statement: the stores into the context, the atomic
\* ++exception_count, the atomic --countdown, the fulfilment of promise_all.
\* A thread inside a lambda keeps the mutexes it holds ("thread").

\* The lambda given to Then and the lambda given to OnException.
ValueLambda == [name |-> "value_lambda", fut |-> 0, rvoid |-> TRUE]
ObserverLambda == [name |-> "observer_lambda", fut |-> 0, rvoid |-> TRUE]

\* The failure user code gives input i.
ExcNames == <<"E1", "E2", "E3", "E4">>
ExcOf(i) == ExcNames[i]

\* A thread that is not inside a lambda.
NoFrame ==
    [pc |-> "idle", kind |-> "none", idx |-> 0, from |-> "none",
     cp |-> NullPromise(TRUE), err |-> NoExc]

Frame(pc, kind, idx, from, cp) ==
    [pc |-> pc, kind |-> kind, idx |-> idx, from |-> from, cp |-> cp,
     err |-> NoExc]

\* Faulty variant of CountdownStart: the first input to finish is taken for
\* the last.
CountdownOne(n) == 1

\* whenAllContext->countdown = futures.size()
CountdownStart(n) == n

\* Faulty variant of StoreAt: every lambda writes the first slot.
StoreAtFirst(vec, idx, x) == [vec EXCEPT ![1] = x]

\* values[idx] = val / exceptions[idx] = e
StoreAt(vec, idx, x) == [vec EXCEPT ![idx] = x]

\* Faulty variant of ReachedZero: every participant takes itself for the last.
ReachedAlways(c) == TRUE

\* 0 == --countdown, on the value the decrement returned
ReachedZero(c) == 0 = c

\* Faulty variant of HasFailures: the value lambda never looks at the count.
HasFailuresNever(c) == FALSE

\* whenAllContext->exception_count > 0
HasFailures(c) == c > 0

\* ExceptionAggregate: the failures added, in the order of Add, as one
\* exception.
RECURSIVE Joined(_)
Joined(es) ==
    IF es = <<>> THEN ""
    ELSE IF Head(es) = NoExc THEN Joined(Tail(es))
    ELSE Head(es) \o ";" \o Joined(Tail(es))

\* The loop over exceptions that adds every non-null entry.
Aggregate(es) == "ExceptionAggregate[" \o Joined(es) \o "]"

\* The thread keeps the mutex of state s over the steps of the lambda.
Park(W, s) == [W EXCEPT !.st[s]._mtx_value_ = "thread"]

\* make_shared<WhenAllContext>() and the four initialising statements, with
\* promise_all constructed as r.p; the inputs are the states of futures[i].
NewContext(n, r) ==
    [phase |-> "attach", n |-> n, i |-> 1, step |-> "then",
     inputs |-> [k \in 1 .. n |-> futs[k]._state_],
     d |-> [k \in 1 .. n |-> 0],
     values |-> [k \in 1 .. n |-> 0],
     countdown |-> CountdownStart(n),
     exceptions |-> [k \in 1 .. n |-> NoExc],
     exception_count |-> 0,
     promise_all |-> r.p, all |-> r.p._state_,
     refs |-> 1,
     out |-> 0,
     thr |-> [t \in 0 .. n |-> NoFrame],
     zeros |-> 0, calls |-> <<>>, order |-> <<>>]

Threads == IF wa.phase = "none" THEN {} ELSE 0 .. wa.n

\* User code calls WhenAll on the Futures of all its promises.
WhenAllBegun(r) ==
    /\ Commit(r.W)
    /\ wa' = NewContext(Len(proms), r)
    /\ last' = NoLast
    /\ UNCHANGED <<proms, futs, moves, dtor>>

DoWhenAll ==
    /\ wa.phase = "none"
    /\ Len(futs) = Len(proms)
    /\ \A k \in 1 .. Len(futs) : futs[k].pc = "idle" /\ futs[k]._state_ = k
    /\ WhenAllBegun(PromiseCtor(World, FALSE, 0, NoFn))

\* The loop body is at futures[i].Then(...) / at .OnException(...).
AtThen == wa.phase = "attach" /\ wa.i <= wa.n /\ wa.step = "then" /\ wa.thr[0].pc = "idle"
AtOnException ==
    wa.phase = "attach" /\ wa.i <= wa.n /\ wa.step = "onexc" /\ wa.thr[0].pc = "idle"

\* futures[i].Then(value lambda) where the lambda is not run by Then: the
\* input has failed, or has no outcome and the lambda is installed (a copy
\* of the shared_ptr then lives in the holder).
ThenAttached(r) ==
    /\ Commit(r.W)
    /\ futs' = [futs EXCEPT ![wa.i]._state_ = r.h]
    /\ wa' = [wa EXCEPT !.d[wa.i] = r.f, !.step = "onexc",
                        !.refs = IF r.W.st[wa.inputs[wa.i]]._continuation_.set
                                 THEN @ + 1 ELSE @]
    /\ last' = NoLast
    /\ UNCHANGED <<proms, moves, dtor>>

AttachThen ==
    /\ AtThen
    /\ ~HasSuccess(st[futs[wa.i]._state_]) \/ st[futs[wa.i]._state_]._exception_ # NoExc
    /\ ThenAttached(Then(World, futs[wa.i]._state_, ValueLambda))

\* futures[i].Then(value lambda) on an input that has its value: Then calls
\* the lambda under the lock; g is the fresh continuationPromise with its
\* Future, W2 the world when the lambda is entered.
ThenEntered(g, W2, x) ==
    /\ Commit(Park(W2, futs[wa.i]._state_))
    /\ wa' = [wa EXCEPT !.d[wa.i] = g.f,
                        !.values = StoreAt(@, wa.i, x),
                        !.thr[0] = Frame("dec", "value", wa.i, "Then", g.p)]
    /\ last' = NoLast
    /\ UNCHANGED <<proms, futs, moves, dtor>>

ThenEnter(g, fs) ==
    ThenEntered(g, NoteCall(Lock(g.W, fs), fs, ArgOf(st[fs])), ArgOf(st[fs]))

AttachThenInline ==
    /\ AtThen
    /\ HasSuccess(st[futs[wa.i]._state_]) /\ st[futs[wa.i]._state_]._exception_ = NoExc
    /\ ThenEnter(FreshPromise(World, futs[wa.i]._state_, ValueLambda),
                 futs[wa.i]._state_)

\* .OnException(observer lambda) on the Future Then returned, where the
\* lambda is not run by OnException: done already, or installed.
ObserverAttached(r, ds) ==
    /\ Commit(r.W)
    /\ wa' = [wa EXCEPT !.i = @ + 1, !.step = "then",
                        !.refs = IF r.W.st[ds]._on_exception_.has THEN @ + 1 ELSE @]
    /\ last' = NoLast
    /\ UNCHANGED <<proms, futs, moves, dtor>>

AttachOnException ==
    /\ AtOnException
    /\ st[wa.d[wa.i]]._exception_ = NoExc
    /\ ObserverAttached(OnException(World, wa.d[wa.i], ObserverLambda), wa.d[wa.i])

\* .OnException(observer lambda) on a Future that has failed: OnException
\* calls the lambda under the lock.
ObserverEntered(W2, e) ==
    /\ Commit(Park(W2, wa.d[wa.i]))
    /\ wa' = [wa EXCEPT !.exceptions = StoreAt(@, wa.i, e),
                        !.thr[0] = Frame("inc", "observer", wa.i, "OnException",
                                         NullPromise(TRUE))]
    /\ last' = NoLast
    /\ UNCHANGED <<proms, futs, moves, dtor>>

AttachOnExceptionInline ==
    /\ AtOnException
    /\ st[wa.d[wa.i]]._exception_ # NoExc
    /\ ObserverEntered(NoteObserver(Lock(World, wa.d[wa.i]), wa.d[wa.i],
                                    st[wa.d[wa.i]]._exception_),
                       st[wa.d[wa.i]]._exception_)

\* return whenAllContext->promise_all.GetFuture(); the local shared_ptr goes
\* out of scope, and with the last reference the context and its promise_all.
WhenAllReturned(r) ==
    /\ r.err = NoExc
    /\ Commit(IF wa.refs = 1 THEN DropPromise(r.W, r.p) ELSE r.W)
    /\ futs' = Append(futs, NewFut(r.f, FALSE))
    /\ wa' = [wa EXCEPT !.phase = "returned", !.out = Len(futs) + 1,
                        !.promise_all = r.p, !.refs = @ - 1]
    /\ last' = NoLast
    /\ UNCHANGED <<proms, moves, dtor>>

WhenAllReturn ==
    /\ wa.phase = "attach" /\ wa.i = wa.n + 1 /\ wa.thr[0].pc = "idle"
    /\ WhenAllReturned(GetFuture(World, wa.promise_all))

\* The result promise inside the continuation holder of input i.
ResultPromise(i) == st[wa.inputs[i]]._continuation_._result_promise_

\* Whether a fulfilment of input i runs a lambda: SetValue runs the value
\* lambda once it is installed, SetException runs the observer lambda once
\* both are installed.
RunsValueLambda(i) ==
    /\ wa.phase # "none"
    /\ st[wa.inputs[i]]._continuation_.set
RunsObserverLambda(i) ==
    /\ wa.phase # "none"
    /\ st[wa.inputs[i]]._continuation_.set
    /\ st[ResultPromise(i)._state_]._on_exception_.has

ChildIdle(i) == wa.phase # "none" => wa.thr[i].pc = "idle"

\* User code fulfils input i and no lambda is run by it.
ChildSetValuePlain(i, v) ==
    /\ ChildIdle(i) /\ ~RunsValueLambda(i)
    /\ DoSetValue(i, v)

ChildSetExceptionPlain(i) ==
    /\ ChildIdle(i) /\ ~RunsObserverLambda(i)
    /\ DoSetException(i, ExcOf(i))

\* p.SetValue(v) on input i with the value lambda installed: SetValue locks
\* the state and calls the holder, which calls the lambda (world W2).
ValueEntered(i, v, W2) ==
    /\ Commit(Park(W2, wa.inputs[i]))
    /\ wa' = [wa EXCEPT !.values = StoreAt(@, i, v),
                        !.thr[i] = Frame("dec", "value", i, "SetValue",
                                         NullPromise(TRUE))]
    /\ last' = NoLast
    /\ UNCHANGED <<proms, futs, moves, dtor>>

ChildSetValue(i, v) ==
    /\ wa.phase # "none" /\ wa.thr[i].pc = "idle"
    /\ RunsValueLambda(i)
    /\ FulfilGuard(proms[i].rec) = NoExc
    /\ ValueEntered(i, v,
           NoteCall(NoteFulfil(Lock(World, wa.inputs[i]), wa.inputs[i],
                               "value", v, NoExc),
                    wa.inputs[i], v))

\* p.SetException(e) on input i with both lambdas installed: SetException
\* locks the state and calls the holder, whose result promise locks the
\* state after it and calls the observer lambda (world W3).
ObserverEnteredBy(i, e, W3) ==
    /\ Commit(Park(Park(W3, wa.inputs[i]), ResultPromise(i)._state_))
    /\ wa' = [wa EXCEPT !.exceptions = StoreAt(@, i, e),
                        !.thr[i] = Frame("inc", "observer", i, "SetException",
                                         NullPromise(TRUE))]
    /\ last' = NoLast
    /\ UNCHANGED <<proms, futs, moves, dtor>>

\* The world when the observer of state ds is entered from a SetException on
\* the promise of state s that has locked s (world W1).
DownTo(W1, ds, e) ==
    NoteObserver(NoteFulfil(Lock(W1, ds), ds, "exception", 0, e), ds, e)

ChildSetException(i) ==
    /\ wa.phase # "none" /\ wa.thr[i].pc = "idle"
    /\ RunsObserverLambda(i)
    /\ FulfilGuard(proms[i].rec) = NoExc
    /\ FulfilGuard(ResultPromise(i)) = NoExc
    /\ ObserverEnteredBy(i, ExcOf(i),
           DownTo(NoteFulfil(Lock(World, wa.inputs[i]), wa.inputs[i],
                             "exception", 0, ExcOf(i)),
                  ResultPromise(i)._state_, ExcOf(i)))

\* ++whenAllContext->exception_count
LambdaInc(t) ==
    /\ t \in Threads /\ wa.thr[t].pc = "inc"
    /\ wa' = [wa EXCEPT !.exception_count = @ + 1, !.thr[t].pc = "dec"]
    /\ last' = NoLast
    /\ UNCHANGED <<st, gh, proms, futs, bad, moves, dtor>>

\* if (0 == --whenAllContext->countdown): one atomic read-modify-write.
LambdaDec(t) ==
    /\ t \in Threads /\ wa.thr[t].pc = "dec"
    /\ wa' = [wa EXCEPT !.countdown = @ - 1,
                        !.thr[t].pc = IF ReachedZero(wa.countdown - 1)
                                      THEN "fulfil" ELSE "ret",
                        !.zeros = IF ReachedZero(wa.countdown - 1) THEN @ + 1 ELSE @,
                        !.order = Append(@, wa.thr[t].idx)]
    /\ last' = NoLast
    /\ UNCHANGED <<st, gh, proms, futs, bad, moves, dtor>>

\* The branch of the last participant: promise_all.SetException(aggregate)
\* or, in the value lambda without failures, promise_all.SetValue(values);
\* r is what the call returned.
AllFulfilled(t, r, op) ==
    /\ Commit(r.W)
    /\ wa' = [wa EXCEPT !.promise_all = r.p,
                        !.thr[t].pc = "ret", !.thr[t].err = r.err,
                        !.calls = Append(@, [t |-> t, op |-> op, err |-> r.err])]
    /\ last' = NoLast
    /\ UNCHANGED <<proms, futs, moves, dtor>>

LambdaFulfil(t) ==
    /\ t \in Threads /\ wa.thr[t].pc = "fulfil"
    /\ IF wa.thr[t].kind = "value" /\ ~HasFailures(wa.exception_count)
       THEN AllFulfilled(t, Nested(World, [op |-> "SetValue", p |-> wa.promise_all,
                                           v |-> wa.values]), "SetValue")
       ELSE AllFulfilled(t, Nested(World, [op |-> "SetException",
                                           p |-> wa.promise_all,
                                           e |-> Aggregate(wa.exceptions)]),
                         "SetException")

\* What the try block of the caller of the value lambda does once the lambda
\* has returned or thrown err: promise.SetDone(), or the catch clause.
AfterLambda(W, err, rp) ==
    IF err = NoExc THEN StoreResult(W, ValueLambda, 0, rp)
    ELSE Nested(W, [op |-> "SetException", p |-> rp, e |-> err])

\* The value lambda returns into Then (thread 0): continuationPromise is set
\* done, the lock scope ends, the handle gives up its state (r).
ThenLeft(r) ==
    /\ Commit(r.W)
    /\ futs' = [futs EXCEPT ![wa.i]._state_ = r.h]
    /\ wa' = [wa EXCEPT !.step = "onexc", !.thr[0] = NoFrame]
    /\ Threw("Then", wa.i, r.err)
    /\ UNCHANGED <<proms, moves, dtor>>

ReturnToThen ==
    /\ wa.phase = "attach"
    /\ wa.thr[0].pc = "ret" /\ wa.thr[0].from = "Then"
    /\ ThenLeft(ThenEnd(AfterLambda(World, wa.thr[0].err, wa.thr[0].cp),
                        futs[wa.i]._state_, wa.d[wa.i]))

\* The observer lambda returns into OnException (thread 0).
OnExceptionLeft(r) ==
    /\ Commit(r.W)
    /\ wa' = [wa EXCEPT !.i = @ + 1, !.step = "then", !.thr[0] = NoFrame]
    /\ last' = NoLast
    /\ UNCHANGED <<proms, futs, moves, dtor>>

ReturnToOnException ==
    /\ wa.phase = "attach"
    /\ wa.thr[0].pc = "ret" /\ wa.thr[0].from = "OnException"
    /\ OnExceptionLeft(OnExceptionEnd(ObsRet(World, wa.d[wa.i],
                                             wa.exceptions[wa.i]),
                                      wa.d[wa.i]))

\* A lambda run by a fulfilment of input i returns: r is what SetValue or
\* SetException of user code returns with.
ChildLeft(i, r, op) ==
    /\ Commit(r.W)
    /\ proms' = [proms EXCEPT ![i].rec = r.p]
    /\ wa' = [wa EXCEPT !.thr[i] = NoFrame]
    /\ Threw(op, i, r.err)
    /\ UNCHANGED <<futs, moves, dtor>>

\* The value lambda returns into the holder's Call, called by SetValue.
ReturnToSetValue(i) ==
    /\ i \in Threads /\ i # 0
    /\ wa.thr[i].pc = "ret" /\ wa.thr[i].from = "SetValue"
    /\ ChildLeft(i, Fulfilled(ResultPromiseIs(
                                  AfterLambda(World, wa.thr[i].err, ResultPromise(i)),
                                  wa.inputs[i]),
                              proms[i].rec),
                 "SetValue")

\* The observer lambda returns into SetException of the result promise,
\* called by the holder's SetException, called by SetException of user code.
ReturnToSetException(i) ==
    /\ i \in Threads /\ i # 0
    /\ wa.thr[i].pc = "ret" /\ wa.thr[i].from = "SetException"
    /\ ChildLeft(i, Fulfilled(ResultPromiseIs(
                                  Fulfilled(Ret(World, ResultPromise(i), wa.thr[i].err),
                                            ResultPromise(i)),
                                  wa.inputs[i]),
                              proms[i].rec),
                 "SetException")

\* The consumer of the aggregate calls Get.
AllGetEnter ==
    /\ wa.phase = "returned" /\ wa.out \in IdleFuts
    /\ GetEnter(wa.out) /\ NoThrow
AllGetTest == wa.phase = "returned" /\ GetTest(wa.out)
AllGetWake == wa.phase = "returned" /\ GetWake(wa.out)

InitAll == \E n \in 1 .. MaxInputs : InitWith([k \in 1 .. n |-> FALSE])

NextAll ==
    \/ \E i \in LiveProms : wa.phase = "none" /\ DoGetFuture(i) /\ NoThrow
    \/ DoWhenAll
    \/ AttachThen
    \/ AttachThenInline
    \/ AttachOnException
    \/ AttachOnExceptionInline
    \/ WhenAllReturn
    \/ \E i \in LiveProms, v \in Vals : ChildSetValuePlain(i, v) /\ NoThrow
    \/ \E i \in LiveProms : ChildSetExceptionPlain(i) /\ NoThrow
    \/ \E i \in LiveProms, v \in Vals : ChildSetValue(i, v)
    \/ \E i \in LiveProms : ChildSetException(i)
    \/ \E t \in Threads : LambdaInc(t)
    \/ \E t \in Threads : LambdaDec(t)
    \/ \E t \in Threads : LambdaFulfil(t)
    \/ ReturnToThen
    \/ ReturnToOnException
    \/ \E i \in LiveProms : ReturnToSetValue(i)
    \/ \E i \in LiveProms : ReturnToSetException(i)
    \/ AllGetEnter
    \/ AllGetTest
    \/ AllGetWake

SpecAll == InitAll /\ [][NextAll]_vars

\* A thread that is inside a lambda, or returns from it into the call that
\* ran it, goes on.
LambdaStep ==
    \/ \E t \in Threads : LambdaInc(t) \/ LambdaDec(t) \/ LambdaFulfil(t)
    \/ ReturnToThen
    \/ ReturnToOnException
    \/ \E i \in LiveProms : ReturnToSetValue(i) \/ ReturnToSetException(i)

\* WhenAll and the fulfilments of its inputs under a scheduler that lets
\* every running thread go on: a thread inside Get goes on when it can, and
\* a thread inside a lambda that asks for a mutex gets it if the mutex is
\* free again and again.  Whether and when user code fulfils an input or
\* calls Get is up to it.
SpecAllLive ==
    /\ InitAll /\ [][NextAll]_vars
    /\ SF_vars(LambdaStep) /\ WF_vars(AllGetTest) /\ WF_vars(AllGetWake)

\* WhenAll over any number of inputs, the empty sequence included.
InitAny == \E n \in 0 .. MaxInputs : InitWith([k \in 1 .. n |-> FALSE])

SpecAny == InitAny /\ [][NextAll]_vars

\* ============================================== namespace Futures (draft)
\* future_continuation.h: the first, non-template version of the library.
\* Its Promise cannot be moved and its SetValue is empty; its states have a
\* count, a mutex, a condition variable, a value and an exception only.

\* The number of states user code of the draft allocates.
MaxDraftStates == 2

\* new PromiseFutureState(): _ref_count_ = 1.
Futures_NewState(hasValue) ==
    [_ref_count_ |-> 1, _mtx_value_ |-> "free", _cv_value_ |-> {},
     _value_ |-> [has |-> hasValue, v |-> 0], _exception_ |-> NoExc,
     deleted |-> FALSE]

\* Two places of the draft have undefined behaviour (operator= of Future
\* flows off its end without a return; Get unlocks the mutex of a state it
\* has just deleted).  The build may go on as if nothing happened, or the
\* program may end there: "ended" in bad, and nothing runs after it.
Futures_Running == "ended" \notin bad

Futures_Undefined(what, ends) ==
    bad' = bad \cup {what} \cup (IF ends THEN {"ended"} ELSE {})

\* PromiseFutureState::_release
Futures_release(S, s) ==
    IF S[s]._ref_count_ = 1
    THEN [S EXCEPT ![s]._ref_count_ = 0, ![s].deleted = TRUE]
    ELSE [S EXCEPT ![s]._ref_count_ = @ - 1]

\* Promise p;
Futures_Promise ==
    /\ Futures_Running
    /\ Len(st) < MaxDraftStates
    /\ st' = Append(st, Futures_NewState(FALSE))
    /\ proms' = Append(proms, [live |-> TRUE,
                               rec |-> [_state_ |-> Len(st) + 1,
                                        _future_retrieved_ |-> FALSE,
                                        _value_set_ |-> FALSE]])
    /\ last' = NoLast
    /\ UNCHANGED <<gh, futs, bad, moves, dtor, wa>>

\* Future f(ValueT{}): a Future that has its value from the start.
Futures_FutureOfValue ==
    /\ Futures_Running
    /\ Len(st) < MaxDraftStates
    /\ st' = Append(st, Futures_NewState(TRUE))
    /\ futs' = Append(futs, NewFut(Len(st) + 1, FALSE))
    /\ last' = NoLast
    /\ UNCHANGED <<gh, proms, bad, moves, dtor, wa>>

\* ~Promise: an unfulfilled promise stores BrokenPromise under the lock and
\* notifies.  The destructor does not call _release.
Futures_DestroyPromise(i) ==
    LET p == proms[i].rec
        s == p._state_
    IN /\ Futures_Running
       /\ proms' = [proms EXCEPT ![i].live = FALSE]
       /\ IF ~p._value_set_ /\ s # 0
          THEN /\ st[s]._mtx_value_ = "free"
               /\ st' = [st EXCEPT ![s]._exception_ = "BrokenPromise",
                                   ![s]._cv_value_ = {}]
          ELSE st' = st
       /\ last' = NoLast
       /\ UNCHANGED <<gh, futs, bad, moves, dtor, wa>>

\* p.GetFuture()
Futures_GetFuture(i) ==
    LET p == proms[i].rec
    IN /\ Futures_Running
       /\ IF p._future_retrieved_
          THEN /\ last' = [op |-> "GetFuture", h |-> i,
                           err |-> "FutureAlreadyRetrieved"]
               /\ UNCHANGED <<st, proms, futs>>
          ELSE IF p._state_ = 0
          THEN /\ last' = [op |-> "GetFuture", h |-> i, err |-> "NoState"]
               /\ UNCHANGED <<st, proms, futs>>
          ELSE /\ proms' = [proms EXCEPT ![i].rec._future_retrieved_ = TRUE]
               /\ st' = [st EXCEPT ![p._state_]._ref_count_ = @ + 1]
               /\ futs' = Append(futs, NewFut(p._state_, FALSE))
               /\ last' = NoLast
       /\ UNCHANGED <<gh, bad, moves, dtor, wa>>

\* p.SetValue(): the body tests _value_set_ and does nothing.
Futures_SetValue(i) ==
    /\ Futures_Running
    /\ last' = NoLast
    /\ UNCHANGED <<st, gh, proms, futs, bad, moves, dtor, wa>>

\* Future g(std::move(f))
Futures_MoveFuture(h) ==
    /\ Futures_Running
    /\ moves < MaxMoves
    /\ futs' = Append([futs EXCEPT ![h]._state_ = 0],
                      NewFut(futs[h]._state_, FALSE))
    /\ moves' = moves + 1
    /\ last' = NoLast
    /\ UNCHANGED <<st, gh, proms, bad, dtor, wa>>

\* f = std::move(g): the state f was bound to is not released, and the
\* function has no return statement.
Futures_MoveAssignFuture(h, g) ==
    /\ Futures_Running
    /\ futs' = [[futs EXCEPT ![h]._state_ = futs[g]._state_]
                   EXCEPT ![g]._state_ = 0]
    /\ \E ends \in BOOLEAN : Futures_Undefined("no_return", ends)
    /\ last' = NoLast
    /\ UNCHANGED <<st, gh, proms, moves, dtor, wa>>

\* ~Future
Futures_DestroyFuture(h) ==
    LET s == futs[h]._state_
    IN /\ Futures_Running
       /\ st' = IF s = 0 THEN st ELSE Futures_release(st, s)
       /\ futs' = [futs EXCEPT ![h].live = FALSE]
       /\ last' = NoLast
       /\ UNCHANGED <<gh, proms, bad, moves, dtor, wa>>

\* f.Get(), up to taking the lock.
Futures_GetEnter(h) ==
    LET s == futs[h]._state_
    IN /\ Futures_Running
       /\ IF s = 0
          THEN /\ last' = [op |-> "Get", h |-> h, err |-> "NoState"]
               /\ UNCHANGED <<st, futs>>
          ELSE /\ st[s]._mtx_value_ = "free"
               /\ st' = [st EXCEPT ![s]._mtx_value_ = "getter"]
               /\ futs' = [futs EXCEPT ![h].pc = "locked", ![h].waited = FALSE]
               /\ last' = NoLast
       /\ UNCHANGED <<gh, proms, bad, moves, dtor, wa>>

\* Get, holding the lock: the test of the while loop and what follows it.
\* No outcome: wait().  A failure: thrown, the handle keeps its state.  A
\* value: moved out and the handle releases, all of it under the lock, so
\* that the last reference deletes a state whose mutex is then unlocked.
Futures_GetTest(h) ==
    LET s == futs[h]._state_
        S == st[s]
        got == [kind |-> IF S._exception_ # NoExc THEN "raise" ELSE "value",
                v |-> 0, e |-> S._exception_, from |-> s,
                waited |-> futs[h].waited]
    IN /\ Futures_Running
       /\ h <= Len(futs)
       /\ futs[h].pc = "locked"
       /\ last' = NoLast
       /\ UNCHANGED <<gh, proms, moves, dtor, wa>>
       /\ IF ~S._value_.has /\ S._exception_ = NoExc
          THEN /\ st' = [st EXCEPT ![s]._mtx_value_ = "free",
                                   ![s]._cv_value_ = @ \cup {h}]
               /\ futs' = [futs EXCEPT ![h].pc = "waiting", ![h].waited = TRUE]
               /\ bad' = bad
          ELSE IF S._exception_ # NoExc
          THEN /\ st' = [st EXCEPT ![s]._mtx_value_ = "free"]
               /\ futs' = [futs EXCEPT ![h].pc = "idle", ![h].waited = FALSE,
                                       ![h].res = got]
               /\ bad' = bad
          ELSE /\ st' = [Futures_release(st, s) EXCEPT ![s]._mtx_value_ = "free"]
               /\ futs' = [futs EXCEPT ![h].pc = "idle", ![h]._state_ = 0,
                                       ![h].waited = FALSE, ![h].res = got]
               /\ IF S._ref_count_ = 1
                  THEN \E ends \in BOOLEAN :
                           Futures_Undefined("unlock_after_delete", ends)
                  ELSE bad' = bad

\* wait() returns: the thread was notified and has the mutex again.
Futures_GetWake(h) ==
    LET s == futs[h]._state_
    IN /\ Futures_Running
       /\ h <= Len(futs)
       /\ futs[h].pc = "waiting"
       /\ h \notin st[s]._cv_value_
       /\ st[s]._mtx_value_ = "free"
       /\ st' = [st EXCEPT ![s]._mtx_value_ = "getter"]
       /\ futs' = [futs EXCEPT ![h].pc = "locked"]
       /\ last' = NoLast
       /\ UNCHANGED <<gh, proms, bad, moves, dtor, wa>>

\* User code of the draft starts with nothing constructed.
Futures_Init ==
    /\ st = <<>> /\ gh = <<>> /\ proms = <<>> /\ futs = <<>>
    /\ bad = {} /\ last = NoLast /\ moves = 0 /\ dtor = FALSE
    /\ wa = NoWhenAll

\* Every operation of the draft.
Futures_Next ==
    \/ Futures_Promise
    \/ Futures_FutureOfValue
    \/ \E i \in LiveProms : Futures_DestroyPromise(i)
    \/ \E i \in LiveProms : Futures_GetFuture(i)
    \/ \E i \in LiveProms : Futures_SetValue(i)
    \/ \E h \in IdleFuts : Futures_MoveFuture(h)
    \/ \E h, g \in IdleFuts : Futures_MoveAssignFuture(h, g)
    \/ \E h \in IdleFuts : Futures_DestroyFuture(h)
    \/ \E h \in IdleFuts : Futures_GetEnter(h)
    \/ \E h \in FutIds : Futures_GetTest(h)
    \/ \E h \in FutIds : Futures_GetWake(h)

Futures_Spec == Futures_Init /\ [][Futures_Next]_vars

\* ============================================================ properties
States == 1 .. Len(st)
Handles == 1 .. Len(futs)

\* No continuation, chained promise or exception observer in state record S.
NoSlot(S) ==
    ~S._continuation_.set /\ ~S._chained_promise_.has /\ ~S._on_exception_.has

\* A state whose outcome a consumer can still read: alive, nothing attached.
Plain(s) == ~st[s].deleted /\ NoSlot(st[s])

\* The outcome a history record says the promise was fulfilled with.
Outcome(g) ==
    [kind |-> IF g.ful = "broken" THEN "exception" ELSE g.ful,
     v |-> g.fulv, e |-> g.fule]

\* The outcome stored in state record S.
StoredOutcome(S) ==
    IF S._exception_ # NoExc THEN [kind |-> "exception", v |-> 0, e |-> S._exception_]
    ELSE IF HasSuccess(S)
    THEN [kind |-> IF S.void THEN "done" ELSE "value", v |-> S._value_.v, e |-> NoExc]
    ELSE [kind |-> "none", v |-> 0, e |-> NoExc]

\* The outcome a completed Get gave its caller.
GotOutcome(res) ==
    [kind |-> IF res.kind = "raise" THEN "exception" ELSE res.kind,
     v |-> res.v, e |-> res.e]

\* Handles whose last Get completed on state s.
GotFrom(s) ==
    {h \in Handles : /\ futs[h].res.kind \in {"value", "done", "raise"}
                     /\ futs[h].res.from = s}

\* States whose Promise handle was destroyed while bound to them without any
\* fulfilment ever called on it (a destroyed handle keeps its last fields).
DroppedUnfulfilled ==
    {proms[i].rec._state_ :
        i \in {j \in 1 .. Len(proms) : /\ ~proms[j].live
                                       /\ proms[j].rec._state_ # 0
                                       /\ ~proms[j].rec._value_set_}}

\* C1: a Promise destroyed without any fulfilment ever called on it leaves
\* BrokenPromise as the outcome of its state, and every Get of its Future that
\* completes, whether it began before the drop and blocked or began after
\* it, raises BrokenPromise.
C1_BrokenPromiseOnDrop ==
    \A s \in DroppedUnfulfilled :
        /\ Plain(s) => st[s]._exception_ = "BrokenPromise"
        /\ \A h \in GotFrom(s) :
              futs[h].res.kind = "raise" /\ futs[h].res.e = "BrokenPromise"

\* A Get that blocked before the drop was woken by it and raised BrokenPromise.
C1_Witness ==
    \E h \in Handles :
        /\ futs[h].res.kind = "raise" /\ futs[h].res.e = "BrokenPromise"
        /\ futs[h].res.waited
        /\ futs[h].res.from \in DroppedUnfulfilled

\* States of user promises fulfilled with SetValue.
ValueStates == {s \in States : gh[s].up = 0 /\ gh[s].ful = "value"}

\* C2: a Promise fulfilled with SetValue(V) whose Future has no continuation
\* attached holds exactly V, and Get on that Future returns exactly V, whether
\* it was called before the fulfilment (and blocked) or after it.
C2_GetReturnsValue ==
    \A s \in ValueStates :
        /\ Plain(s) => /\ st[s]._value_ = [has |-> TRUE, v |-> gh[s].fulv]
                       /\ st[s]._exception_ = NoExc
        /\ \A h \in GotFrom(s) :
              futs[h].res.kind = "value" /\ futs[h].res.v = gh[s].fulv

\* A Get that blocked before SetValue(MaxVal) returned MaxVal.
C2_Witness ==
    \E h \in Handles :
        /\ futs[h].res.kind = "value" /\ futs[h].res.v = MaxVal
        /\ futs[h].res.waited
        /\ futs[h].res.from \in ValueStates

\* The thread of handle h is inside Get and the Promise of its state has been
\* fulfilled or destroyed.
Settled(h) ==
    /\ h <= Len(futs)
    /\ futs[h].pc # "idle"
    /\ gh[futs[h]._state_].ful # "none"

OutOfGet(h) == h <= Len(futs) /\ futs[h].pc = "idle"

\* No thread sleeps in wait() on a state that has its outcome.
NoLostWakeUp ==
    \A h \in Handles :
        (futs[h].pc = "waiting" /\ h \in st[futs[h]._state_]._cv_value_)
            => ~HasOutcome(st[futs[h]._state_])

\* C3: under fair scheduling of the threads inside Get, once the Promise has
\* been fulfilled (value, done or exception) or destroyed, every thread inside
\* Get on the paired Future leaves Get; and no wake-up is lost: no thread
\* sleeps in wait() while the outcome is there.
C3_NoConsumerBlocksForever ==
    /\ []NoLostWakeUp
    /\ \A h \in FutIds : Settled(h) ~> OutOfGet(h)

\* A thread that slept in wait() has been notified of the outcome and is
\* about to take the mutex again.
C3_Witness ==
    \E h \in Handles :
        /\ futs[h].pc = "waiting"
        /\ h \notin st[futs[h]._state_]._cv_value_
        /\ HasOutcome(st[futs[h]._state_])

\* s2 is the end of a chain root.Then(f).Then(g) on a user promise's Future.
Up(s) == gh[s].up
IsChain(s2) ==
    /\ gh[s2].fn = "g" /\ Up(s2) # 0
    /\ gh[Up(s2)].fn = "f" /\ Up(Up(s2)) # 0
    /\ gh[Up(Up(s2))].up = 0
Root(s2) == Up(Up(s2))
Chains == {s \in States : IsChain(s)}

\* What the end of the chain must hold when its root was given V.
ChainOutcome(V) ==
    IF FnThrows("f", V) THEN [kind |-> "exception", v |-> 0, e |-> "Ef"]
    ELSE [kind |-> "value", v |-> FnValue("g", FnValue("f", V)), e |-> NoExc]

\* C4: for a chain Then(f).Then(g) of plain functions on the Future of a
\* Promise fulfilled with V, in every order of the two attachments and the
\* fulfilment: the final Future holds g(f(V)) and Get on it returns that,
\* each function having been invoked once; and if f throws E the final
\* Future holds E, Get on it raises E, and g is never invoked.
C4_ChainComposes ==
    \A s \in Chains :
        gh[Root(s)].ful = "value" =>
            /\ Outcome(gh[s]) = ChainOutcome(gh[Root(s)].fulv)
            /\ Plain(s) => StoredOutcome(st[s]) = ChainOutcome(gh[Root(s)].fulv)
            /\ \A h \in GotFrom(s) :
                  GotOutcome(futs[h].res) = ChainOutcome(gh[Root(s)].fulv)
            /\ gh[Root(s)].n = 1
            /\ gh[Up(s)].n = IF FnThrows("f", gh[Root(s)].fulv) THEN 0 ELSE 1

\* Get on the end of a chain returned g(f(V)).
C4_Witness ==
    \E h \in Handles :
        /\ futs[h].res.kind = "value"
        /\ futs[h].res.from \in Chains
        /\ futs[h].res.v = FnValue("g", FnValue("f", gh[Root(futs[h].res.from)].fulv))

\* C5: when the root Promise of a chain Then(f).Then(g) fails with E (by
\* SetException, or BrokenPromise by destruction), E reaches the last
\* Promise of the chain: the final Future holds E, Get on it raises E, and
\* neither f nor g is invoked.
C5_FailureForwarded ==
    \A s \in Chains :
        gh[Root(s)].ful \in {"exception", "broken"} =>
            /\ Outcome(gh[s]) = Outcome(gh[Root(s)])
            /\ Plain(s) => st[s]._exception_ = gh[Root(s)].fule
            /\ \A h \in GotFrom(s) :
                  futs[h].res.kind = "raise" /\ futs[h].res.e = gh[Root(s)].fule
            /\ gh[Root(s)].n = 0 /\ gh[Up(s)].n = 0

\* Both continuations were installed, then the root Promise was destroyed,
\* and Get on the end of the chain raised BrokenPromise.
C5_Witness ==
    \E h \in Handles :
        /\ futs[h].res.kind = "raise" /\ futs[h].res.e = "BrokenPromise"
        /\ futs[h].res.from \in Chains
        /\ st[Root(futs[h].res.from)]._continuation_.set
        /\ st[Up(futs[h].res.from)]._continuation_.set

\* Future handles user code may call Then on whose state holds a failure.
FailedIdle ==
    {h \in IdleFuts : /\ futs[h]._state_ # 0
                      /\ st[futs[h]._state_]._exception_ # NoExc}

\* States of the Futures a function object of user code may have captured.
Capturable(h) == {0} \cup {futs[h2]._state_ : h2 \in IdleFuts \ {h}}

\* The call of Then on state s returned r without throwing, the function was
\* not invoked, and the Future returned is a new one holding the failure of s.
ForwardsFailure(r, s) ==
    /\ r.err = NoExc
    /\ r.f > Len(st)
    /\ r.W.st[r.f]._exception_ = st[s]._exception_
    /\ ~HasSuccess(r.W.st[r.f])
    /\ r.W.gh[s].n = gh[s].n

\* C6: Then(fn) on a Future whose outcome is already a failure E throws
\* nothing, does not invoke fn, and returns a Future whose outcome is E; for
\* a plain fn and for a fn returning a Future, for Future<T> and Future<void>.
C6_ThenOnFailed ==
    \A h \in FailedIdle :
        /\ \A name \in PlainFnsOf(futs[h].void) :
              ForwardsFailure(Then(World, futs[h]._state_, PlainFn(name)),
                              futs[h]._state_)
        /\ \A c \in Capturable(h), rv \in BOOLEAN :
              ForwardsFailure(ThenChained(World, futs[h]._state_,
                                          [name |-> "u", fut |-> c, rvoid |-> rv]),
                              futs[h]._state_)

\* Then was called on a Future<void> that had already failed: the state it
\* was called on never got a continuation, and the new state holds the failure.
C6_Witness ==
    \E s \in States :
        /\ Up(s) # 0
        /\ st[Up(s)].void
        /\ st[Up(s)]._exception_ # NoExc
        /\ ~st[Up(s)]._continuation_.set
        /\ st[s]._exception_ = st[Up(s)]._exception_

\* States made by Then(u) with u returning the Future it captured, installed
\* as a continuation that has since been called.
Unwrapped ==
    {s \in States : /\ gh[s].fn = "u" /\ gh[s].inner # 0
                    /\ gh[Up(s)].ful \in {"value", "done"}}

\* Future handles user code may call Then on whose state holds a success.
DoneIdle ==
    {h \in IdleFuts : /\ futs[h]._state_ # 0
                      /\ st[futs[h]._state_]._exception_ = NoExc
                      /\ HasSuccess(st[futs[h]._state_])}

ReturnsCaptured(r, c) == r.err = NoExc /\ r.f = c

\* C7: for C1.Then(u) with u returning the Future C2 of Promise P2, the
\* Future returned by Then has exactly the outcome of C2 (P2's value, P2's
\* failure, BrokenPromise when P2 is destroyed), in every order of attaching,
\* fulfilling P1 and fulfilling P2: attached after P1, Then returns C2
\* itself; attached before, the new Promise is fulfilled as P2 is.
C7_Unwrap ==
    /\ \A s \in Unwrapped :
          /\ Outcome(gh[s]) = Outcome(gh[gh[s].inner])
          /\ (Plain(s) /\ gh[s].ful # "none")
                => StoredOutcome(st[s]) = Outcome(gh[gh[s].inner])
          /\ \A h \in GotFrom(s) :
                GotOutcome(futs[h].res) = Outcome(gh[gh[s].inner])
    /\ \A h \in DoneIdle : \A h2 \in IdleFuts \ {h} :
          ReturnsCaptured(ThenChained(World, futs[h]._state_,
                                      [name |-> "u", fut |-> futs[h2]._state_,
                                       rvoid |-> futs[h2].void]),
                          futs[h2]._state_)

\* P1 was fulfilled with 0 and P2 with MaxVal, and Get on the Future that
\* Then(u) returned gave MaxVal.
C7_Witness ==
    \E h \in Handles :
        /\ futs[h].res.kind = "value" /\ futs[h].res.v = MaxVal
        /\ futs[h].res.from \in Unwrapped
        /\ gh[Up(futs[h].res.from)].ful = "value"
        /\ gh[Up(futs[h].res.from)].fulv = 0

\* The call returned r after throwing err and changing nothing.
OnlyThrows(r, err, p) == r.err = err /\ r.W = World /\ r.p = p

\* The first GetFuture on p: a Future on p's state, one more reference,
\* nothing else changed.
HandsOut(r, p) ==
    /\ r.err = NoExc
    /\ r.f = p._state_
    /\ r.p = [p EXCEPT !._future_retrieved_ = TRUE]
    /\ r.W = [World EXCEPT !.st[p._state_]._ref_count_ = @ + 1]

\* C8: the first GetFuture on a Promise with state succeeds and raises the
\* reference count by one; every later GetFuture on it throws
\* FutureAlreadyRetrieved and leaves the count and the state unchanged.
C8_OneFuture ==
    \A i \in LiveProms :
        IF proms[i].rec._future_retrieved_
        THEN OnlyThrows(GetFuture(World, proms[i].rec), "FutureAlreadyRetrieved",
                        proms[i].rec)
        ELSE proms[i].rec._state_ # 0 =>
                 HandsOut(GetFuture(World, proms[i].rec), proms[i].rec)

\* A second GetFuture has just thrown FutureAlreadyRetrieved.
C8_Witness ==
    last.op = "GetFuture" /\ last.err = "FutureAlreadyRetrieved"

\* C9: once a Promise has been fulfilled (SetValue, SetDone or SetException)
\* it is marked so, and every further SetValue, SetDone or SetException on it
\* throws PromiseAlreadySatisfied and changes nothing: no outcome, no history
\* of a continuation, chained promise or observer call, no notification.
C9_FulfilOnce ==
    \A i \in LiveProms :
        /\ (proms[i].rec._state_ # 0 /\ gh[proms[i].rec._state_].ful # "none")
              => proms[i].rec._value_set_
        /\ proms[i].rec._value_set_ =>
              /\ \A v \in Vals :
                    OnlyThrows(SetValue(World, proms[i].rec, v),
                               "PromiseAlreadySatisfied", proms[i].rec)
              /\ OnlyThrows(SetDone(World, proms[i].rec),
                            "PromiseAlreadySatisfied", proms[i].rec)
              /\ OnlyThrows(SetException(World, proms[i].rec, "E1"),
                            "PromiseAlreadySatisfied", proms[i].rec)

\* A second fulfilment has just thrown PromiseAlreadySatisfied.
C9_Witness ==
    /\ last.err = "PromiseAlreadySatisfied"
    /\ last.op \in {"SetValue", "SetDone", "SetException"}

ThrowsNoState(r) == r.err = "NoState" /\ r.W = World

\* C10: every operation on a handle without state (moved from, or a Future
\* constructed by default) throws NoState and changes no state: GetFuture,
\* SetValue, SetDone and SetException on a Promise, Get and both Then
\* overloads on a Future.
C10_NoState ==
    /\ \A i \in LiveProms :
          proms[i].rec._state_ = 0 =>
              /\ OnlyThrows(GetFuture(World, proms[i].rec), "NoState", proms[i].rec)
              /\ \A v \in Vals :
                    OnlyThrows(SetValue(World, proms[i].rec, v), "NoState",
                               proms[i].rec)
              /\ OnlyThrows(SetDone(World, proms[i].rec), "NoState", proms[i].rec)
              /\ OnlyThrows(SetException(World, proms[i].rec, "E1"), "NoState",
                            proms[i].rec)
    /\ \A h \in IdleFuts :
          futs[h]._state_ = 0 =>
              /\ ThrowsNoState(GetBegin(World, futs[h]._state_))
              /\ \A name \in PlainFnsOf(futs[h].void) :
                    ThrowsNoState(Then(World, futs[h]._state_, PlainFn(name)))
              /\ \A rv \in BOOLEAN :
                    ThrowsNoState(ThenChained(World, futs[h]._state_,
                                              [name |-> "u", fut |-> 0, rvoid |-> rv]))

\* A fulfilment on a moved-from Promise has just thrown NoState.
C10_Witness ==
    /\ last.err = "NoState"
    /\ last.op \in {"SetValue", "SetDone", "SetException"}
    /\ moves > 0

\* A Get of handle h completes in this step: it returns or rethrows.
GetCompletes(h) == futs[h].pc = "locked" /\ futs'[h].pc = "idle"

\* C11: Get consumes the handle on every path: after a Get has completed,
\* by returning the value or by rethrowing the stored failure, the handle has
\* no state and the reference it held is released, so that a second Get on
\* it throws NoState.
C11_GetConsumes ==
    [][\A h \in Handles :
          GetCompletes(h) =>
              /\ futs'[h]._state_ = 0
              /\ GetBegin(World', futs'[h]._state_).err = "NoState"]_vars

\* Idle handles bound to a state.
BoundIdle == {h \in IdleFuts : futs[h]._state_ # 0}

\* In world W2 exactly one reference of state s has been given up since the
\* current state; the last one deleted the state.
ReleasedOnce(W2, s) ==
    IF st[s]._ref_count_ = 1
    THEN W2.st[s].deleted /\ W2.st[s]._ref_count_ = 0
    ELSE ~W2.st[s].deleted /\ W2.st[s]._ref_count_ = st[s]._ref_count_ - 1

\* The call of Then with fn on state s returned r: nothing thrown, the handle
\* without state, its reference released once, and the next Then or Get on the
\* handle throws NoState.
ConsumedBy(r, s, fn) ==
    /\ r.err = NoExc
    /\ r.h = 0
    /\ ReleasedOnce(r.W, s)
    /\ Then(r.W, r.h, fn).err = "NoState"
    /\ GetBegin(r.W, r.h).err = "NoState"

\* C12: Then consumes the handle in all three cases (the outcome is already a
\* failure, already a value or done, or still empty): when Then returns, the
\* handle has released its reference exactly once and has no state, so a
\* second Then or a Get on it throws NoState.
C12_ThenConsumes ==
    \A h \in BoundIdle :
        \A name \in PlainFnsOf(futs[h].void) :
            ConsumedBy(Then(World, futs[h]._state_, PlainFn(name)),
                       futs[h]._state_, PlainFn(name))

\* Then was called on a state without outcome (the continuation was
\* installed and has run since) and on the state it made, which had its value
\* by then (the function ran inside Then); both handles are without state.
C12_Witness ==
    \E s \in States, h1 \in Handles, h2 \in Handles :
        /\ Up(s) # 0 /\ Up(Up(s)) # 0
        /\ st[Up(Up(s))]._continuation_.set
        /\ ~st[Up(s)]._continuation_.set
        /\ gh[Up(s)].n = 1
        /\ HasSuccess(st[s])
        /\ futs[h1].res.kind = "none" /\ futs[h2].res.kind = "none"
        /\ h1 # h2 /\ futs[h1]._state_ = 0 /\ futs[h2]._state_ = 0

\* Idle Future<void> handles without state: moved from, or used up by an
\* earlier Get, Then or OnException.
StatelessVoid == {h \in IdleFuts : futs[h].void /\ futs[h]._state_ = 0}

\* C13: OnException on a Future<void> handle that is moved from or was used
\* up by an earlier Get, Then or OnException throws NoState to its caller, as
\* every other operation on a handle without state does.
C13_OnExceptionNoState ==
    \A h \in StatelessVoid :
        OnException(World, futs[h]._state_, Observer).err = "NoState"

\* States whose user function (continuation or exception observer) has run.
Invoked == {s \in States : gh[s].n + gh[s].obs > 0}

\* C18: the state mutex is never held while user code runs: SetValue,
\* SetDone and SetException invoke the continuation, the chained forward or
\* the exception observer only after releasing the mutex of the state, and so
\* do Then and OnException on a Future that is already completed.
C18_NoUserCodeUnderMutex ==
    \A s \in Invoked : ~gh[s].locked

\* The outcome fields of state record S.
OutcomeFields(S) == <<S._value_, S._done_, S._exception_>>

\* A success and a failure are never both stored in a state.
OneOutcome == \A s \in States : ~(HasSuccess(st[s]) /\ st[s]._exception_ # NoExc)

\* A step leaves every outcome that is there as it is.
OutcomeKept ==
    \A s \in States : HasOutcome(st[s]) => OutcomeFields(st'[s]) = OutcomeFields(st[s])

\* C19 (I1): the outcome of a shared state changes at most once, from empty
\* to one of value, done and failure; it never returns to empty, also not
\* after Get or an inline Then has moved the value out, and never changes
\* from one outcome to another, so value and failure are never both set.
C19_OutcomeOnce == []OneOutcome /\ [][OutcomeKept]_vars

\* Get has moved the value out of a state that is still alive and still has
\* it, and a later fulfilment of that state has just been refused.
C19_Witness ==
    \E h \in Handles :
        /\ futs[h].res.kind = "value"
        /\ ~st[futs[h].res.from].deleted
        /\ st[futs[h].res.from]._value_.has
        /\ last.err = "PromiseAlreadySatisfied"

\* The slots of state record S that are set.
SlotsSet(S) ==
    {k \in {"continuation", "chained_promise", "on_exception"} :
        \/ k = "continuation" /\ S._continuation_.set
        \/ k = "chained_promise" /\ S._chained_promise_.has
        \/ k = "on_exception" /\ S._on_exception_.has}

\* What was written into the slots of S: which function the continuation
\* holds, which state the chained promise is bound to, which observer.  (A
\* call of the continuation changes the holder's members, not the slot.)
SlotsWritten(S) ==
    <<S._continuation_.set, S._continuation_.chained, S._continuation_.fn.name,
      S._chained_promise_.has, S._chained_promise_.p._state_,
      S._on_exception_.has, S._on_exception_.fn.name>>

AtMostOneSlot == \A s \in States : Cardinality(SlotsSet(st[s])) <= 1

\* A step writes no slot of a state that has a slot set.
SlotsKept ==
    \A s \in States :
        SlotsSet(st[s]) # {} => SlotsWritten(st'[s]) = SlotsWritten(st[s])

\* C20 (I2): in every reachable state at most one of the slots continuation,
\* chained promise and exception observer of a shared state is set, and each
\* slot is written at most once in the lifetime of the state.
C20_OneSlot == []AtMostOneSlot /\ [][SlotsKept]_vars

\* A continuation, a chained promise and an exception observer are installed,
\* each in a state of its own.
C20_Witness ==
    \E s1 \in States, s2 \in States, s3 \in States :
        /\ SlotsSet(st[s1]) = {"continuation"}
        /\ SlotsSet(st[s2]) = {"chained_promise"}
        /\ SlotsSet(st[s3]) = {"on_exception"}

\* States that are not destroyed.
Alive == {s \in States : ~st[s].deleted}

\* The Promise handles bound to state s: those of user code, and those kept
\* inside a state that is alive (the result promise of its continuation
\* holder, its chained promise).
PromisesOn(s) ==
    {<<"user", i>> : i \in {j \in LiveProms : proms[j].rec._state_ = s}}
    \cup {<<"holder", u>> : u \in {t \in Alive : /\ st[t]._continuation_.set
                                                /\ st[t]._continuation_._result_promise_._state_ = s}}
    \cup {<<"chained", u>> : u \in {t \in Alive : /\ st[t]._chained_promise_.has
                                                 /\ st[t]._chained_promise_.p._state_ = s}}

\* The Future handles bound to state s: those of user code, and those
\* captured by the function of a continuation holder of a state that is alive.
FuturesOn(s) ==
    {<<"user", h>> : h \in {k \in Handles : futs[k].live /\ futs[k]._state_ = s}}
    \cup {<<"captured", u>> : u \in {t \in Alive : /\ st[t]._continuation_.set
                                                  /\ st[t]._continuation_.fn.fut = s}}

\* Future handles of user code that are still bound to s after a Get on s
\* that rethrew its failure; by the contract of Get they are consumed.
RaisedOn(s) ==
    {<<"user", h>> : h \in {k \in Handles : /\ futs[k].live /\ futs[k]._state_ = s
                                            /\ futs[k].pc = "idle"
                                            /\ futs[k].res.kind = "raise"
                                            /\ futs[k].res.from = s}}

\* No state is released, locked or referenced after it was destroyed, and a
\* state is destroyed exactly when its reference count is 0.
DestroyedOnce ==
    /\ "use_after_delete" \notin bad
    /\ \A s \in States : st[s].deleted <=> st[s]._ref_count_ = 0

\* While a handle is bound to a state its reference count is positive.
BoundIsCounted ==
    \A s \in States :
        PromisesOn(s) \cup FuturesOn(s) # {} => st[s]._ref_count_ > 0

\* Once the Promise of a state is dropped and its Future is consumed or
\* dropped, the state is destroyed.
NoLeak ==
    \A s \in States :
        (PromisesOn(s) = {} /\ FuturesOn(s) \subseteq RaisedOn(s)) => st[s].deleted

\* C17: no shared state leaks and none is destroyed twice: whatever the
\* operations were (GetFuture, fulfilment, Get returning or rethrowing, Then,
\* OnException, moves, drops), once the Promise of a state has been dropped
\* and its Future has been consumed or dropped the reference count is 0 and
\* the state has been destroyed exactly once, and while a handle is bound to
\* the state its reference count is positive.
C17_NoLeak == DestroyedOnce /\ BoundIsCounted /\ NoLeak

\* ----------------------------------------------------------------- WhenAll
\* WhenAll was called; its inputs are the states 1 .. wa.n.
Called == wa.phase # "none"
Inputs == 1 .. wa.n

\* WhenAll has returned, every input is fulfilled and every call of user
\* code has returned.
Completed ==
    /\ wa.phase = "returned"
    /\ \A t \in Threads : wa.thr[t].pc = "idle"
    /\ \A k \in Inputs : proms[k].rec._value_set_

\* What user code fulfilled the inputs with.
Succeeded == {k \in Inputs : gh[k].ful = "value"}
Failed == {k \in Inputs : gh[k].ful = "exception"}
InputValues == [k \in Inputs |-> gh[k].fulv]
InputFailures == [k \in Inputs |-> IF k \in Failed THEN gh[k].fule ELSE NoExc]

\* The aggregate state, and what a Get on the aggregate Future returned.
AllState == st[wa.all]
AllGot == futs[wa.out].res

\* C14: for WhenAll over N >= 1 inputs that all succeed, in whatever order
\* they complete and whether before or after the call of WhenAll, the value
\* of the aggregate Future has length N and its slot i is the value of input i.
C14_WhenAllValues ==
    Called =>
        /\ AllState._value_.has =>
              /\ Succeeded = Inputs
              /\ Len(AllState._value_.v) = wa.n
              /\ \A k \in Inputs : AllState._value_.v[k] = gh[k].fulv
        /\ (Completed /\ Succeeded = Inputs) =>
              /\ AllState._value_.has /\ AllState._exception_ = NoExc
              /\ AllGot.kind # "none" =>
                    AllGot.kind = "value" /\ AllGot.v = InputValues

\* Two inputs with different values, the lambda of the second counted down
\* before that of the first, and Get on the aggregate Future returned both
\* values in input order.
C14_Witness ==
    /\ Called /\ Completed
    /\ wa.order = <<2, 1>>
    /\ gh[1].ful = "value" /\ gh[2].ful = "value" /\ gh[1].fulv # gh[2].fulv
    /\ AllGot.kind = "value" /\ AllGot.v = <<gh[1].fulv, gh[2].fulv>>

\* C15: for WhenAll over N inputs of which K >= 1 fail, in whatever order
\* successes and failures complete (also when the last to complete is a
\* success), the outcome of the aggregate is a failure, an ExceptionAggregate
\* of exactly the K failures in input order, and never a value.
C15_WhenAllFailures ==
    Called =>
        /\ AllState._exception_ # NoExc =>
              /\ Failed # {}
              /\ AllState._exception_ = Aggregate(InputFailures)
        /\ (Completed /\ Failed # {}) =>
              /\ AllState._exception_ = Aggregate(InputFailures)
              /\ ~AllState._value_.has
              /\ AllGot.kind # "none" =>
                    AllGot.kind = "raise" /\ AllGot.e = Aggregate(InputFailures)

\* One input failed and the other, the last to complete, succeeded; Get on
\* the aggregate Future raised the aggregate of the one failure.
C15_Witness ==
    /\ Called /\ Completed
    /\ wa.n = 2 /\ Len(wa.order) = 2
    /\ wa.order[2] \in Succeeded /\ wa.order[1] \in Failed
    /\ AllGot.kind = "raise"
    /\ AllGot.e = Aggregate(InputFailures)

\* C16: promise_all is fulfilled exactly once for N >= 1 inputs, however the
\* completions of the inputs on different threads interleave: exactly one
\* participant sees the countdown reach 0 and enters the fulfilling branch,
\* and no SetValue or SetException on promise_all throws
\* PromiseAlreadySatisfied.
C16_FulfilledOnce ==
    Called =>
        /\ wa.zeros <= 1 /\ Len(wa.calls) <= 1
        /\ \A c \in 1 .. Len(wa.calls) : wa.calls[c].err = NoExc
        /\ Completed =>
              /\ wa.zeros = 1 /\ Len(wa.calls) = 1
              /\ HasOutcome(AllState)

\* Two threads are inside their lambdas at the same time and one of them has
\* fulfilled promise_all.
C16_Witness ==
    /\ Called /\ Len(wa.calls) = 1
    /\ \E t \in Threads :
          /\ t # wa.calls[1].t
          /\ wa.thr[t].pc = "ret"
          /\ wa.thr[wa.calls[1].t].pc = "ret"

\* States with a continuation or a chained promise installed.
Slotted == {s \in States : st[s]._continuation_.set \/ st[s]._chained_promise_.has}

\* C21 (I3): whenever the continuation or the chained promise of a state is
\* set its outcome is empty: a slot is installed only while the outcome is
\* empty, and a fulfilment that arrives afterwards is forwarded through the
\* slot and never stored.
C21_SlotMeansEmpty == \A s \in Slotted : ~HasOutcome(st[s])

\* A state with a continuation and a state with a chained promise have both
\* been fulfilled since, and neither holds an outcome.
C21_Witness ==
    \E s1 \in States, s2 \in States :
        /\ st[s1]._continuation_.set /\ gh[s1].ful # "none"
        /\ st[s2]._chained_promise_.has /\ gh[s2].ful # "none"
        /\ ~HasOutcome(st[s1]) /\ ~HasOutcome(st[s2])

\* The reference count of every state is 0, 1 or 2.
RefCountRange == \A s \in States : st[s]._ref_count_ \in 0 .. 2

\* At most one Promise and at most one Future are bound to a state, and its
\* reference count is the number of these handles.
RefCountIsHandles ==
    \A s \in States :
        /\ Cardinality(PromisesOn(s)) <= 1
        /\ Cardinality(FuturesOn(s)) <= 1
        /\ st[s]._ref_count_ = Cardinality(PromisesOn(s)) + Cardinality(FuturesOn(s))

\* The Promise of state s has not handed out its Future yet.
Unretrieved(s) ==
    \E i \in LiveProms : proms[i].rec._state_ = s /\ ~proms[i].rec._future_retrieved_

\* The only increment of a reference count is the one of GetFuture, from 1 to
\* 2, made once per state (a Promise that handed out its Future never does
\* so again), hence before any decrement; a count of 0 stays 0.
RefCountSteps ==
    [][\A s \in States :
          /\ st'[s]._ref_count_ > st[s]._ref_count_
                => /\ st[s]._ref_count_ = 1 /\ st'[s]._ref_count_ = 2
                   /\ Unretrieved(s) /\ ~Unretrieved(s)'
          /\ ~Unretrieved(s) => ~Unretrieved(s)'
          /\ st[s]._ref_count_ = 0 => st'[s]._ref_count_ = 0]_vars

\* No state is locked, referenced or released after its count reached 0.
NoResurrection ==
    /\ "use_after_delete" \notin bad
    /\ \A s \in States : st[s]._ref_count_ = 0 => st[s].deleted

ValueFulfilled == {s \in States : gh[s].ful \in {"value", "done"}}

\* The fulfilment of s went to its continuation: the function was invoked
\* once, with the value, nothing was stored and nobody was notified.
WentToContinuation(s) ==
    /\ gh[s].n = 1 /\ gh[s].arg = gh[s].fulv
    /\ ~HasOutcome(st[s]) /\ gh[s].notified = 0

\* The fulfilment of s went to its chained promise, which was fulfilled the
\* same way; nothing was stored in s and nobody was notified.
WentToChained(s) ==
    /\ gh[st[s]._chained_promise_.p._state_].ful = gh[s].ful
    /\ gh[st[s]._chained_promise_.p._state_].fulv = gh[s].fulv
    /\ st[s]._chained_promise_.p._value_set_
    /\ ~HasOutcome(st[s]) /\ gh[s].notified = 0

\* The fulfilment of s was stored in s and all its waiters were notified.
WentToOutcome(s) ==
    /\ IF gh[s].ful = "done" THEN st[s]._done_ /\ ~st[s]._value_.has
       ELSE st[s]._value_ = [has |-> TRUE, v |-> gh[s].fulv] /\ ~st[s]._done_
    /\ st[s]._exception_ = NoExc
    /\ gh[s].notified = 1 /\ st[s]._cv_value_ = {}

\* C23: every fulfilment with a value (SetValue, SetDone) commits exactly
\* one disposal, in this order of priority: an installed continuation is
\* invoked with the value and nothing is stored; else the value is
\* forwarded to an installed chained promise and nothing is stored; else the
\* value is stored as the outcome and all waiters on the condition variable
\* are notified.
C23_ValueDisposal ==
    \A s \in ValueFulfilled :
        IF st[s]._continuation_.set THEN WentToContinuation(s)
        ELSE IF st[s]._chained_promise_.has
        THEN WentToChained(s) /\ gh[s].n = 0
        ELSE WentToOutcome(s)

C23_Witness ==
    \E s1 \in ValueFulfilled, s2 \in ValueFulfilled, s3 \in ValueFulfilled :
        /\ st[s1]._continuation_.set /\ WentToContinuation(s1)
        /\ st[s2]._chained_promise_.has /\ WentToChained(s2)
        /\ ~st[s3]._continuation_.set /\ ~st[s3]._chained_promise_.has
        /\ WentToOutcome(s3)
        /\ \E h \in Handles : futs[h].res.from = s3 /\ futs[h].res.waited

\* States whose promise was fulfilled with a failure: by SetException, or by
\* the BrokenPromise of a promise destroyed unfulfilled.
FailureFulfilled == {s \in States : gh[s].ful \in {"exception", "broken"}}

\* Promise q was fulfilled with the failure of s.
FailurePassedTo(s, q) ==
    /\ q._state_ # 0 /\ q._value_set_
    /\ gh[q._state_].ful = "exception" /\ gh[q._state_].fule = gh[s].fule

\* Nothing was stored in s and its waiters were not notified.
Discarded(s) == ~HasOutcome(st[s]) /\ gh[s].notified = 0

\* The failure of s is its stored outcome and all its waiters were notified.
FailureStored(s) ==
    /\ st[s]._exception_ = gh[s].fule /\ ~st[s]._value_.has /\ ~st[s]._done_
    /\ gh[s].notified = 1 /\ st[s]._cv_value_ = {}

\* C24: a fulfilment with failure E is dispatched in the order continuation,
\* chained promise, exception observer, store: with only an observer
\* installed the observer is invoked with E and the failure is discarded
\* (the outcome stays empty, no waiter is notified); with no slot installed
\* E is stored as the outcome and all waiters are notified.  The
\* BrokenPromise injected when a promise is destroyed unfulfilled is
\* dispatched the same way.
C24_FailureDisposal ==
    \A s \in FailureFulfilled :
        /\ gh[s].ful = "broken" => gh[s].fule = "BrokenPromise"
        /\ IF st[s]._continuation_.set
           THEN /\ FailurePassedTo(s, st[s]._continuation_._result_promise_)
                /\ gh[s].n = 0 /\ gh[s].obs = 0 /\ Discarded(s)
           ELSE IF st[s]._chained_promise_.has
           THEN /\ FailurePassedTo(s, st[s]._chained_promise_.p)
                /\ gh[s].obs = 0 /\ Discarded(s)
           ELSE IF st[s]._on_exception_.has
           THEN gh[s].obs = 1 /\ gh[s].obsarg = gh[s].fule /\ Discarded(s)
           ELSE FailureStored(s)

C24_Witness ==
    \E s1 \in FailureFulfilled, s2 \in FailureFulfilled :
        /\ gh[s1].ful = "broken" /\ st[s1]._on_exception_.has
        /\ gh[s1].obs = 1 /\ Discarded(s1)
        /\ gh[s2].ful = "exception" /\ FailureStored(s2)
        /\ ~st[s2]._continuation_.set /\ ~st[s2]._chained_promise_.has
        /\ ~st[s2]._on_exception_.has
        /\ \E h \in Handles : futs[h].res.from = s2 /\ futs[h].res.waited

\* Idle Future<void> handles bound to a state whose mutex is free.
BoundVoid ==
    {h \in IdleFuts : /\ futs[h].void /\ futs[h]._state_ # 0
                      /\ st[futs[h]._state_]._mtx_value_ = "free"}

\* OnException on state s returned r: the observer was called inline with
\* a failure that was already there, nothing happened when the outcome was
\* done, the observer was stored otherwise; the handle gave up its state.
ObserverProtocol(s, r) ==
    /\ r.h = 0 /\ r.err = NoExc
    /\ r.W.st[s]._ref_count_ = st[s]._ref_count_ - 1
    /\ IF st[s]._exception_ # NoExc
       THEN /\ r.obs = st[s]._exception_
            /\ r.W.gh[s].obs = gh[s].obs + 1
            /\ r.W.gh[s].obsarg = st[s]._exception_
            /\ ~r.W.st[s]._on_exception_.has
       ELSE IF st[s]._done_
       THEN /\ r.obs = NoExc /\ r.W.gh[s].obs = gh[s].obs
            /\ ~r.W.st[s]._on_exception_.has
       ELSE /\ r.obs = NoExc /\ r.W.gh[s].obs = gh[s].obs
            /\ r.W.st[s]._on_exception_ = [has |-> TRUE, fn |-> Observer]

\* Whatever the order of OnException and the fulfilment: the observer of a
\* state runs at most once, only with the failure its promise was fulfilled
\* with, never after SetDone, and a stored observer has run once the promise
\* has failed or was destroyed unfulfilled.
ObserverOnce ==
    \A s \in States :
        /\ gh[s].obs <= 1
        /\ gh[s].obs = 1 => /\ gh[s].ful \in {"exception", "broken"}
                            /\ gh[s].obsarg = gh[s].fule
        /\ (st[s]._on_exception_.has /\ gh[s].ful \in {"exception", "broken"})
               => gh[s].obs = 1

\* C25: OnException(fn) on a Future<void> calls fn(E) inline if the outcome
\* is already the failure E, does nothing if the outcome is done, and stores
\* fn otherwise; in every interleaving with the single fulfilment of the
\* promise fn is invoked exactly once if the promise fails or is destroyed
\* unfulfilled and never if it completes with SetDone; the handle is
\* consumed in all cases.
C25_ObserverProtocol ==
    /\ \A h \in BoundVoid :
           ObserverProtocol(futs[h]._state_,
                            OnException(World, futs[h]._state_, Observer))
    /\ ObserverOnce

C25_Witness ==
    \E h \in Handles, s \in States, s2 \in States :
        /\ futs[h].res.kind = "observed" /\ futs[h].res.from = s
        /\ futs[h]._state_ = 0
        /\ gh[s].obs = 1 /\ ~st[s]._on_exception_.has
        /\ st[s2]._on_exception_.has /\ gh[s2].ful = "broken" /\ gh[s2].obs = 1

\* States whose promise has been fulfilled (with a value, a completion or a
\* failure) by a call that has returned.
FulfilmentReturned == {s \in States : gh[s].ful # "none" /\ st[s]._mtx_value_ = "free"}

\* C26: a fulfilment dispatched through the continuation or the chained
\* promise removes that record from the state: after SetValue, SetDone or
\* SetException has returned neither a continuation nor a chained promise is
\* left in the state.
C26_SlotRemoved ==
    \A s \in FulfilmentReturned :
        ~st[s]._continuation_.set /\ ~st[s]._chained_promise_.has

\* States made by Then(fn), fn a plain function, on a state whose promise
\* was fulfilled by SetValue or SetDone.
Attached ==
    {d \in States : /\ gh[d].up # 0 /\ gh[d].fn \in {"f", "g", "n"}
                    /\ gh[gh[d].up].ful \in {"value", "done"}}

\* What the promise of Then(fn) is fulfilled with when fn is given x.
Downstream(fn, x) ==
    IF FnThrows(fn, x) THEN [kind |-> "exception", v |-> 0, e |-> "Ef"]
    ELSE [kind |-> IF fn = "n" THEN "done" ELSE "value",
          v |-> FnValue(fn, x), e |-> NoExc]

\* Whatever the order of Then and the fulfilment, fn has been invoked once,
\* with the value, and the promise of Then has been fulfilled with what fn
\* gave.
InvokedWithValue ==
    \A d \in Attached :
        /\ gh[gh[d].up].n = 1 /\ gh[gh[d].up].arg = gh[gh[d].up].fulv
        /\ Outcome(gh[d]) = Downstream(gh[d].fn, gh[gh[d].up].fulv)

\* A step that invokes the function attached to s is the fulfilment of s
\* when the continuation was installed, and is a call of Then on a handle
\* bound to s, with the outcome stored, when it was not; a promise that has been fulfilled is not
\* fulfilled again.
InvokedByOne ==
    \A s \in States :
        /\ gh'[s].n > gh[s].n =>
              /\ gh[s].n = 0 /\ gh'[s].n = 1
              /\ IF st[s]._continuation_.set
                 THEN gh[s].ful = "none" /\ gh'[s].ful # "none"
                 ELSE /\ HasOutcome(st[s]) /\ gh'[s].ful = gh[s].ful
                      /\ \E h \in Handles :
                             futs[h]._state_ = s /\ futs'[h]._state_ = 0
        /\ gh[s].ful # "none" =>
              /\ gh'[s].ful = gh[s].ful /\ gh'[s].fulv = gh[s].fulv
              /\ gh'[s].fule = gh[s].fule

\* C27: no completion is lost or duplicated when Then(fn) races with the
\* single SetValue(V) of the promise on another thread: in every
\* interleaving fn is invoked exactly once with V, by the fulfilling call if
\* the continuation was installed first and inline by Then otherwise, and the
\* promise of the Future that Then returned is fulfilled exactly once.
C27_ThenRace == []InvokedWithValue /\ [][InvokedByOne]_vars

C27_Witness ==
    \E d1 \in Attached, d2 \in Attached :
        /\ st[gh[d1].up]._continuation_.set /\ gh[gh[d1].up].n = 1
        /\ ~st[gh[d2].up]._continuation_.set /\ gh[gh[d2].up].n = 1
        /\ gh[gh[d1].up].ful = "value" /\ gh[gh[d2].up].ful = "value"
        /\ gh[d1].ful # "none" /\ gh[d2].ful # "none"

\* Promises of user code that can be fulfilled now and whose state has a
\* continuation installed by Then(fn), fn returning no Future.
Continued ==
    {i \in LiveProms : /\ proms[i].rec._state_ # 0 /\ ~proms[i].rec._value_set_
                       /\ st[proms[i].rec._state_]._mtx_value_ = "free"
                       /\ st[proms[i].rec._state_]._continuation_.set
                       /\ ~st[proms[i].rec._state_]._continuation_.chained}

\* The state of the Future that Then returned when it installed the
\* continuation of s.
Result(s) == st[s]._continuation_._result_promise_._state_

\* In world W2 the fulfilment of state d is committed: stored as its
\* outcome, or handed on to what is installed in d.
Committed(W2, d) ==
    /\ W2.gh[d].ful # "none" /\ W2.st[d]._mtx_value_ = "free"
    /\ \/ HasOutcome(W2.st[d])
       \/ /\ W2.st[d]._continuation_.set
          /\ W2.gh[d].n = 1 \/ W2.st[d]._continuation_._result_promise_._value_set_
       \/ W2.st[d]._chained_promise_.has /\ W2.st[d]._chained_promise_.p._value_set_
       \/ W2.st[d]._on_exception_.has /\ W2.gh[d].obs = 1

\* A fulfilment of the promise of s returned r: it was not kept waiting
\* for a mutex, or else it threw nothing, the continuation of s has run
\* (calls times; on a failure it is the holder's SetException that ran),
\* the result promise is fulfilled with out, and that fulfilment is
\* committed in the state of the result promise.
RanInline(s, r, calls, out) ==
    \/ r.W.blocked
    \/ /\ r.err = NoExc /\ r.p._value_set_
       /\ r.W.st[s]._mtx_value_ = "free"
       /\ r.W.gh[s].n = calls
       /\ r.W.st[s]._continuation_._result_promise_._value_set_
       /\ Outcome(r.W.gh[Result(s)]) = out
       /\ Committed(r.W, Result(s))

\* C28: continuations run inline in the fulfilling call: with a continuation
\* installed by Then (fn returning no Future) before the promise is
\* fulfilled, when SetValue, SetDone or SetException returns to its caller
\* the continuation (or its failure path) has run and the outcome of the
\* downstream state, or the dispatch to what is installed there, is
\* committed; nothing is left pending for another thread.
C28_RunsInline ==
    \A i \in Continued :
        /\ RanInline(proms[i].rec._state_,
                     SetException(World, proms[i].rec, "E1"), 0,
                     [kind |-> "exception", v |-> 0, e |-> "E1"])
        /\ proms[i].rec.void =>
               RanInline(proms[i].rec._state_, SetDone(World, proms[i].rec), 1,
                         Downstream(st[proms[i].rec._state_]._continuation_.fn.name, 0))
        /\ ~proms[i].rec.void =>
               \A v \in Vals :
                   RanInline(proms[i].rec._state_,
                             SetValue(World, proms[i].rec, v), 1,
                             Downstream(st[proms[i].rec._state_]._continuation_.fn.name, v))

C28_Witness ==
    \E s \in States :
        /\ st[s]._continuation_.set /\ ~st[s]._continuation_.chained
        /\ gh[s].ful = "value" /\ gh[s].n = 1
        /\ st[Result(s)]._continuation_.set /\ gh[Result(s)].n = 1
        /\ HasOutcome(st[Result(Result(s))])

\* States whose value exists: the promise was fulfilled with a value.
Produced == {s \in States : gh[s].ful \in {"value", "done"}}

\* States made by Then(fn), fn a plain function: links of a chain.
Links == {s \in States : gh[s].up # 0 /\ gh[s].fn \in {"f", "g", "n"}}

\* The function attached to a state has run only if the value of the state
\* exists, and then with that value; the value of a link exists only if
\* the function attached upstream has run, and it is what that function
\* made of the upstream value.
Ordered ==
    /\ \A s \in States :
           gh[s].n > 0 => s \in Produced /\ gh[s].arg = gh[s].fulv
    /\ \A s \in Links \cap Produced :
           /\ gh[gh[s].up].n = 1 /\ gh[s].up \in Produced
           /\ gh[s].fulv = FnValue(gh[s].fn, gh[gh[s].up].fulv)

\* A step never produces the value of a state whose function has already
\* run, and never runs a function a second time.
OrderedStep ==
    \A s \in States :
        /\ gh[s].n > 0 => gh'[s].n = gh[s].n /\ gh'[s].ful = gh[s].ful
        /\ (gh'[s].n > gh[s].n /\ gh[s].up # 0) => gh'[gh[s].up].n = 1

\* C29: in a chain A -> B -> C built with Then the continuation that
\* produces the value of C is invoked only after the value of B has been
\* produced, which happens only after the value of A has been produced: in
\* no interleaving does a downstream continuation run before its upstream
\* outcome exists.
C29_ChainOrder == []Ordered /\ [][OrderedStep]_vars

C29_Witness ==
    \E c \in Links \cap Produced :
        /\ gh[c].up \in Links \cap Produced
        /\ gh[gh[gh[c].up].up].up = 0
        /\ gh[gh[c].up].n = 1 /\ gh[gh[gh[c].up].up].n = 1
        /\ gh[c].fulv = FnValue(gh[c].fn, FnValue(gh[gh[c].up].fn, gh[gh[gh[c].up].up].fulv))

\* Inputs whose promise is not fulfilled yet, or whose fulfilment has not
\* got as far as counting down.
Pending == {k \in Inputs : gh[k].ful = "none"}

\* The aggregate has an outcome only when no input is pending and the
\* countdown is at 0, whatever number of inputs has failed.
WaitsForAll ==
    (Called /\ HasOutcome(AllState)) =>
        /\ Pending = {} /\ wa.countdown = 0
        /\ Len(wa.order) = wa.n

\* The step that gives the aggregate its outcome is made by the participant
\* whose decrement of the countdown gave 0.
OutcomeAtZero ==
    (Called /\ ~HasOutcome(AllState) /\ HasOutcome(st'[wa.all])) =>
        /\ wa.countdown = 0 /\ wa.zeros = 1
        /\ \E t \in Threads : wa.thr[t].pc = "fulfil" /\ wa'.thr[t].pc # "fulfil"

\* C30: WhenAll waits for all its inputs: the outcome of the aggregate stays
\* empty as long as one input Future is neither completed nor failed, even
\* when other inputs have failed already (no fail-fast); it becomes
\* non-empty only with the countdown reaching 0.
C30_WaitsForAll == []WaitsForAll /\ [][OutcomeAtZero]_vars

C30_Witness ==
    /\ Called /\ wa.phase = "returned" /\ wa.n = 2
    /\ \A t \in Threads : wa.thr[t].pc = "idle"
    /\ wa.exception_count = 1 /\ wa.countdown = 1
    /\ Failed # {} /\ Pending # {}
    /\ ~HasOutcome(AllState)

\* C31: WhenAll over an empty sequence (N = 0) yields an aggregate Future
\* whose Get returns a value of length 0, not a failure.
C31_WhenAllEmpty ==
    (Called /\ wa.n = 0 /\ wa.phase = "returned") =>
        /\ AllState._exception_ = NoExc
        /\ AllState._value_ = [has |-> TRUE, v |-> <<>>]
        /\ AllGot.kind # "none" => AllGot.kind = "value" /\ AllGot.v = <<>>

\* Promises of user code that are alive and were moved from (or never had a
\* state since): no state, no flag.
MovedFrom == {i \in LiveProms : proms[i].rec._state_ = 0}

\* Promises of user code bound to a state whose mutex is free.
BoundProms ==
    {i \in LiveProms : /\ proms[i].rec._state_ # 0
                       /\ st[proms[i].rec._state_]._mtx_value_ = "free"}

\* ~Promise on a moved-from promise: no fulfilment, no release, nothing.
SourceInert ==
    \A i \in MovedFrom :
        /\ proms[i].rec = NullPromise(proms[i].rec.void)
        /\ DropPromise(World, proms[i].rec) = World

\* The flags of a promise are those of its state, wherever the promise was
\* moved: fulfilled, Future handed out.
FlagsFollow ==
    \A i \in LiveProms :
        proms[i].rec._state_ # 0 =>
            /\ proms[i].rec._value_set_ <=> gh[proms[i].rec._state_].ful # "none"
            /\ ~proms[i].rec._future_retrieved_ =>
                   /\ st[proms[i].rec._state_]._ref_count_ = 1
                   /\ \A h \in Handles : futs[h]._state_ # proms[i].rec._state_

\* _clear on promise rec bound to s returned c: the promise gave up its
\* reference; a fulfilled promise injected nothing, an unfulfilled one
\* fulfilled s with BrokenPromise (stored, when nothing is installed in s).
ClearedFrom(s, rec, c) ==
    /\ c.W.st[s]._ref_count_ = st[s]._ref_count_ - 1
    /\ IF rec._value_set_
       THEN /\ c.W.gh[s] = gh[s]
            /\ StoredOutcome(c.W.st[s]) = StoredOutcome(st[s])
       ELSE /\ c.W.gh[s].ful = "broken" /\ c.W.gh[s].fule = "BrokenPromise"
            /\ NoSlot(st[s]) => c.W.st[s]._exception_ = "BrokenPromise"

\* ~Promise on a promise that is bound, and GetFuture on one whose Future
\* was handed out already.
TargetKeeps ==
    \A i \in BoundProms :
        /\ ClearedFrom(proms[i].rec._state_, proms[i].rec,
                       _clear(World, proms[i].rec))
        /\ proms[i].rec._future_retrieved_ =>
               GetFuture(World, proms[i].rec).err = "FutureAlreadyRetrieved"

\* p = std::move(q) returned r: the source is reset, the target has the
\* state and the flags of the source, the state of the source is as it was,
\* and the old state of the target was cleared.
AssignedOver(p, q, same, r) ==
    /\ r.q = NullPromise(q.void)
    /\ r.p = IF same THEN NullPromise(q.void) ELSE q
    /\ (~same /\ q._state_ # 0 /\ q._state_ # p._state_) =>
           /\ r.W.st[q._state_] = st[q._state_]
           /\ r.W.gh[q._state_] = gh[q._state_]
    /\ IF p._state_ = 0 THEN r.W = World
       ELSE ClearedFrom(p._state_, p, [W |-> r.W])

MoveAssigns ==
    \A i \in LiveProms, j \in LiveProms :
        (/\ proms[i].rec.void = proms[j].rec.void
         /\ i \in BoundProms \cup MovedFrom) =>
            AssignedOver(proms[i].rec, proms[j].rec, i = j,
                         MoveAssign(World, proms[i].rec, proms[j].rec, i = j))

\* The move constructor: the new promise has the three fields of the
\* source, the source is reset, no state is touched.
MoveConstructs ==
    \A i \in LiveProms :
        MovePromise(i) =>
            /\ proms'[Len(proms')].rec = proms[i].rec
            /\ proms'[i].rec = NullPromise(proms[i].rec.void)
            /\ st' = st /\ gh' = gh

\* C32: moving a Promise (move construction or move assignment) transfers
\* the state together with the fulfilled flag and the future-retrieved
\* flag: destroying the moved-from source performs no fulfilment and no
\* release; destroying a target that received a fulfilled promise injects no
\* BrokenPromise; GetFuture on a target whose source had handed out its
\* Future throws FutureAlreadyRetrieved; move-assigning over an unfulfilled
\* target first fulfils the old state of the target with BrokenPromise and
\* releases it.
C32_MoveTransfers ==
    /\ [](SourceInert /\ FlagsFollow /\ TargetKeeps /\ MoveAssigns)
    /\ [][MoveConstructs]_vars

C32_Witness ==
    /\ Len(proms) = 3 /\ \A i \in 1 .. 3 : proms[i].live
    /\ \E i \in BoundProms, t \in States :
           /\ proms[i].rec._value_set_ /\ proms[i].rec._future_retrieved_
           /\ gh[proms[i].rec._state_].ful \in {"value", "done"}
           /\ t # proms[i].rec._state_
           /\ gh[t].ful = "broken" /\ st[t]._exception_ = "BrokenPromise"
           /\ MovedFrom = LiveProms \ {i}

\* A thread that holds the mutex of s may go on to lock t: the state of the
\* result promise of the continuation of s, the state of the Future its
\* future-returning function captured (the unwrap attaches to it), the state
\* of its chained promise, and for the states the WhenAll lambdas run
\* under, the state of promise_all.
LocksAfter(s, t) ==
    \/ /\ st[s]._continuation_.set
       /\ t = st[s]._continuation_._result_promise_._state_
    \/ /\ st[s]._continuation_.set /\ st[s]._continuation_.chained
       /\ t = st[s]._continuation_.fn.fut
    \/ /\ st[s]._chained_promise_.has
       /\ t = st[s]._chained_promise_.p._state_
    \/ /\ Called /\ t = wa.all
       /\ \E k \in Inputs : s = wa.inputs[k] \/ s = wa.d[k]

\* The states a thread holding s can come to lock, in up to k nested calls.
RECURSIVE LockReach(_, _)
LockReach(S, k) ==
    IF k = 0 THEN S
    ELSE LockReach(S \cup {t \in States : \E s \in S : LocksAfter(s, t)}, k - 1)

\* No thread has locked a mutex it already held, and the order in which
\* mutexes are taken one inside the other has no cycle.
NoCyclicWait ==
    /\ "relock" \notin bad
    /\ \A s \in States :
           s \notin LockReach({t \in States : LocksAfter(s, t)}, Len(st))

\* Every state there can be with WhenAll: the inputs, the state Then makes
\* for each of them, the aggregate.
AllStateIds == 1 .. (2 * MaxInputs + 1)

\* The mutex of state s is held: by a thread inside Get, or by a thread
\* inside a lambda.
Held(s) == s <= Len(st) /\ st[s]._mtx_value_ # "free"

Futures_BothGone ==
    {i \in 1 .. Len(proms) :
        /\ ~proms[i].live
        /\ proms[i].rec._future_retrieved_
        /\ \E h \in 1 .. Len(futs) :
              \/ ~futs[h].live /\ futs[h]._state_ = proms[i].rec._state_
              \/ /\ futs[h].res.kind = "value"
                 /\ futs[h].res.from = proms[i].rec._state_}

\* C34: in the draft (namespace Futures), once the Promise has been
\* destroyed and the Future was consumed by Get or destroyed, the count of
\* the shared state is 0 and the state has been deleted.
C34_DraftStateFreed ==
    \A i \in Futures_BothGone :
        /\ st[proms[i].rec._state_]._ref_count_ = 0
        /\ st[proms[i].rec._state_].deleted
====
